---- MODULE Spec2Model ----
(***************************************************************************)
(* Weather-forecast resolution layer of src/controllers/locations.js:      *)
(* the TTL caches, the coordinate key, getForecastForLatLon, and the       *)
(* bounded worker pool of POST /weather/batch.                             *)
(*                                                                         *)
(* JavaScript runs one callback at a time: every action below is the code  *)
(* that runs between two suspension points (an await) of one async call.   *)
(***************************************************************************)
EXTENDS Integers, Sequences, FiniteSets, TLC

VARIABLES
    now,            \* Date.now(), in milliseconds
    map,            \* a Map handed to cacheGet / cacheSet on its own
    lastGet,        \* what the last cacheGet on map saw and returned
    lastSet,        \* what the last cacheSet on map wrote, and the reads since
    pointsCache,    \* coordKey -> { value: forecastUrl, expiresAt }
    forecastCache,  \* forecastUrl -> { value: periods, expiresAt }
    call,           \* per caller: its getForecastForLatLon invocation
    hist,           \* per client: when its call began, the requests it has sent
    log,            \* the invocations that have settled, oldest first
    locations,      \* req.body.locations of the batch request
    limit,          \* second argument of mapWithConcurrency
    batch,          \* position of the batch handler
    idx,            \* the counter shared by the runners
    results,        \* the array the runners fill
    runner,         \* per runner: its position and the index it holds
    claimed,        \* the indices handed to a worker so far, in order
    outcomes,       \* per index: how its getForecastForLatLon call settled
    response,       \* what the batch handler sent
    inv2,           \* a second invocation of the batch handler: its own locations,
                    \* cursor, results, runners and calls
    placesCache,    \* the Map of GET /places
    search,         \* the GET /places request in progress
    searches,       \* the GET /places requests that were answered, oldest first
    locationDocs,   \* the Location collection: _id -> author, longitude, latitude
    list,           \* the locations array of the stored List document
    adds,           \* per slot: a POST /:listId/locations request in progress
    answered        \* the add-location requests that were answered, oldest first

vars == <<now, map, lastGet, lastSet, pointsCache, forecastCache, call, hist, log,
          locations, limit, batch, idx, results, runner, claimed, outcomes,
          response, inv2, placesCache, search, searches, locationDocs, list, adds,
          answered>>

cacheVars == <<map, lastGet, lastSet>>
placesVars == <<placesCache, search, searches>>
listVars == <<locationDocs, list, adds, answered>>
resolveVars == <<pointsCache, forecastCache, call, hist, log>>
batchVars ==
    <<locations, limit, batch, idx, results, runner, claimed, outcomes, response,
      inv2>>

----------------------------------------------------------------------------
(* Bounds of the model *)

MaxTime == 3
MaxCalls == 2
MaxItems == 3
MaxLimit == 2
MaxOverlap == 2

----------------------------------------------------------------------------
(* JavaScript values *)

Null == [t |-> "null"]
Undefined == [t |-> "undefined"]
Str(s) == [t |-> "string", s |-> s]
Chars(c) == [t |-> "string", chars |-> c]
Arr(a) == [t |-> "array", a |-> a]

\* a finite number is a sign, an integer part and 8 decimals (fp counts
\* units of 10^-8, so that the parts stay inside TLC's integers); NaN and the
\* infinities stand apart
Fin(neg, ip, fp) == [t |-> "number", k |-> "fin", neg |-> neg, ip |-> ip, fp |-> fp]
Inf(neg) == [t |-> "number", k |-> "inf", neg |-> neg]
NaN == [t |-> "number", k |-> "nan"]

IsNullish(x) == x.t \in {"null", "undefined"}

Truthy(x) ==
    CASE x.t = "null" -> FALSE
      [] x.t = "undefined" -> FALSE
      [] x.t = "string" -> IF "s" \in DOMAIN x THEN x.s # "" ELSE x.chars # <<>>
      [] x.t = "array" -> TRUE
      [] x.t = "object" -> TRUE
      [] x.t = "number" -> ~(x.k = "nan" \/ (x.k = "fin" /\ x.ip = 0 /\ x.fp = 0))

----------------------------------------------------------------------------
(* The TTL cache: a Map of key -> { value, expiresAt } *)

Entry(value, expiresAt) == [value |-> value, expiresAt |-> expiresAt]

MapDelete(m, key) == [k \in (DOMAIN m) \ {key} |-> m[k]]
MapSet(m, key, e) == [k \in (DOMAIN m) \cup {key} |-> IF k = key THEN e ELSE m[k]]

\* a variant that keeps an entry alive at the instant it expires
ExpiredLate(hit, t) == hit.expiresAt < t
Expired(hit, t) == hit.expiresAt <= t

\* the value cacheGet returns, and the Map it leaves
cacheGet(m, key, t) ==
    IF key \notin DOMAIN m THEN Null
    ELSE IF Expired(m[key], t) THEN Null
    ELSE m[key].value

cacheGetMap(m, key, t) ==
    IF key \notin DOMAIN m THEN m
    ELSE IF Expired(m[key], t) THEN MapDelete(m, key)
    ELSE m

\* a variant whose entries live for one millisecond at least
cacheSetAtLeastOne(m, key, value, ttlMs, t) ==
    MapSet(m, key, Entry(value, t + (IF ttlMs = 0 THEN 1 ELSE ttlMs)))

\* a variant that gives a key that is already there its new value and leaves
\* its expiry
cacheSetKeepExpiry(m, key, value, ttlMs, t) ==
    MapSet(m, key, Entry(value, IF key \in DOMAIN m THEN m[key].expiresAt ELSE t + ttlMs))

cacheSet(m, key, value, ttlMs, t) == MapSet(m, key, Entry(value, t + ttlMs))

TTL_places == 10 * 60 * 1000
TTL_points == 7 * 24 * 60 * 60 * 1000
TTL_forecast == 10 * 60 * 1000

----------------------------------------------------------------------------
(* Number(v) and toFixed(4) on the values a request can carry *)

Digits == {"0", "1", "2", "3", "4", "5", "6", "7", "8", "9"}

DigitVal(c) ==
    CASE c = "0" -> 0 [] c = "1" -> 1 [] c = "2" -> 2 [] c = "3" -> 3
      [] c = "4" -> 4 [] c = "5" -> 5 [] c = "6" -> 6 [] c = "7" -> 7
      [] c = "8" -> 8 [] c = "9" -> 9

RECURSIVE DigitsVal(_)
DigitsVal(cs) ==
    IF cs = <<>> THEN 0
    ELSE 10 * DigitsVal(SubSeq(cs, 1, Len(cs) - 1)) + DigitVal(cs[Len(cs)])

RECURSIVE Pow10(_)
Pow10(n) == IF n = 0 THEN 1 ELSE 10 * Pow10(n - 1)

RECURSIVE TrimLeft(_)
TrimLeft(cs) == IF cs # <<>> /\ Head(cs) = " " THEN TrimLeft(Tail(cs)) ELSE cs

RECURSIVE TrimRight(_)
TrimRight(cs) ==
    IF cs # <<>> /\ cs[Len(cs)] = " "
    THEN TrimRight(SubSeq(cs, 1, Len(cs) - 1))
    ELSE cs

AllDigits(cs) == \A i \in 1..Len(cs) : cs[i] \in Digits

\* position of the first "." of cs, or 0
DotAt(cs) ==
    IF \E i \in 1..Len(cs) : cs[i] = "."
    THEN CHOOSE i \in 1..Len(cs) : cs[i] = "." /\ \A j \in 1..(i - 1) : cs[j] # "."
    ELSE 0

InfinityChars == <<"I", "n", "f", "i", "n", "i", "t", "y">>

\* an unsigned decimal literal (digits, at most one ".", at most 8 decimals;
\* the inputs of the model carry no exponent and no radix prefix)
DecimalLiteral(cs) ==
    LET d == DotAt(cs)
        ip == IF d = 0 THEN cs ELSE SubSeq(cs, 1, d - 1)
        fp == IF d = 0 THEN <<>> ELSE SubSeq(cs, d + 1, Len(cs))
    IN  IF Len(ip) + Len(fp) > 0 /\ AllDigits(ip) /\ AllDigits(fp) /\ Len(fp) <= 8
        THEN Fin(FALSE, DigitsVal(ip), DigitsVal(fp) * Pow10(8 - Len(fp)))
        ELSE NaN

Negate(x) ==
    CASE x.k = "fin" -> Fin(~x.neg, x.ip, x.fp)
      [] x.k = "inf" -> Inf(~x.neg)
      [] x.k = "nan" -> x

Unsigned(cs) == IF cs = InfinityChars THEN Inf(FALSE) ELSE DecimalLiteral(cs)

\* StringToNumber: white space trimmed, "" is 0, an optional sign
StringToNumber(cs) ==
    LET s == TrimRight(TrimLeft(cs))
    IN  IF s = <<>> THEN Fin(FALSE, 0, 0)
        ELSE IF Head(s) = "-" THEN Negate(Unsigned(Tail(s)))
        ELSE IF Head(s) = "+" THEN Unsigned(Tail(s))
        ELSE Unsigned(s)

Number(v) ==
    CASE v.t = "undefined" -> NaN
      [] v.t = "null" -> Fin(FALSE, 0, 0)
      [] v.t = "number" -> v
      [] v.t = "string" -> StringToNumber(v.chars)

IsNaN(x) == x.t = "number" /\ x.k = "nan"
IsFinite(x) == x.t = "number" /\ x.k = "fin"

\* x < 0 (false of -0)
IsNegative(x) == x.k = "fin" /\ x.neg /\ (x.ip > 0 \/ x.fp > 0)

\* x.toFixed(4): the sign of x, then the nearest multiple of 10^-4 of |x|,
\* the larger one on a tie; the infinities print as "Infinity"
toFixed4(x) ==
    CASE x.k = "nan" -> [text |-> "NaN"]
      [] x.k = "inf" -> [text |-> IF x.neg THEN "-Infinity" ELSE "Infinity"]
      [] x.k = "fin" ->
            LET n == x.ip * 10000 + (x.fp \div 10000)
                r == x.fp % 10000
            IN  [neg |-> IsNegative(x), n |-> IF 2 * r >= 10000 THEN n + 1 ELSE n]

roundCoord(v) == toFixed4(Number(v))

toNum(v) == IF v = Chars(<<>>) \/ IsNullish(v) THEN Null ELSE Number(v)

\* the test of getForecastForLatLon that throws status 400
InvalidCoord(latNum, lonNum) ==
    IsNullish(latNum) \/ IsNullish(lonNum) \/ IsNaN(latNum) \/ IsNaN(lonNum)

coordKeyOf(latNum, lonNum) == [lat |-> roundCoord(latNum), lon |-> roundCoord(lonNum)]

----------------------------------------------------------------------------
(* The upstream provider, as fetch sees it *)

HttpOk(body) == [kind |-> "http", ok |-> TRUE, status |-> 200, body |-> body]
HttpFail(status) == [kind |-> "http", ok |-> FALSE, status |-> status]
\* fetch rejects (no connection), or the body is not JSON
Rejected == [kind |-> "reject"]

Urls == {Str("U1"), Str("U2")}

\* the answers the sequences of requests are checked against ...
PointsResponses ==
    {HttpOk([forecast |-> u]) : u \in Urls} \cup {HttpOk([forecast |-> Undefined]), HttpFail(503)}

ForecastResponses ==
    {HttpOk([periods |-> Arr(<<"p1">>)]), HttpOk([periods |-> Undefined]), HttpFail(503)}

\* ... and every kind of answer, for a single request
AllPointsResponses ==
    PointsResponses \cup {HttpOk([forecast |-> Str("")]), HttpFail(404), Rejected}

AllForecastResponses ==
    ForecastResponses \cup {HttpOk([periods |-> Arr(<<>>)]), HttpFail(404), Rejected}

\* an Error: its message and its status property (0: it has none)
Err(message, status) == [message |-> message, status |-> status]

\* fetchJson: the parsed body, or the Error it throws
fetchJson(res) ==
    IF res.kind = "reject" THEN [threw |-> TRUE, err |-> Err(<<"fetch failed">>, 0)]
    ELSE IF ~res.ok
    THEN [threw |-> TRUE, err |-> Err(<<"Request failed: ", res.status>>, res.status)]
    ELSE [threw |-> FALSE, data |-> res.body]

\* x ?? d
Coalesce(x, d) == IF IsNullish(x) THEN d ELSE x

----------------------------------------------------------------------------
(* getForecastForLatLon, one segment per stretch of code between awaits.   *)
(* R is what the segments share, the two caches; c is the invocation,      *)
(* which counts the upstream requests it sends. A segment returns both.    *)

Pending == [t |-> "pending"]
Returned(periods) == [t |-> "returned", periods |-> periods]
Threw(err, at) == [t |-> "threw", err |-> err, at |-> at]

IdleCall == [pc |-> "idle"]

\* the history of a call that has not begun: no request sent, no cache read
NoHist ==
    [startedAt |-> 0, nPoints |-> 0, nForecast |-> 0, pointsLookup |-> "none",
     forecastLookup |-> "none"]

NewCall(lat, lon) ==
    [pc |-> "running", lat |-> lat, lon |-> lon, coordKey |-> Null,
     forecastUrl |-> Null, outcome |-> Pending]

Settle(c, outcome) == [c EXCEPT !.pc = "settled", !.outcome = outcome]

\* a variant that fetches the forecast whatever the forecast-cache holds
lookupForecastAlwaysFetch(R, c, forecastUrl, t) ==
    [R |-> [R EXCEPT !.forecast = cacheGetMap(R.forecast, forecastUrl, t)],
     call |-> [c EXCEPT !.forecastUrl = forecastUrl, !.pc = "awaitForecast"]]

\* lines 87-95: forecast URL -> periods
lookupForecast(R, c, forecastUrl, t) ==
    LET periods == cacheGet(R.forecast, forecastUrl, t)
        R1 == [R EXCEPT !.forecast = cacheGetMap(R.forecast, forecastUrl, t)]
        c1 == [c EXCEPT !.forecastUrl = forecastUrl]
    IN  IF ~Truthy(periods)
        THEN [R |-> R1,
              call |-> [c1 EXCEPT !.pc = "awaitForecast"]]
        ELSE [R |-> R1, call |-> Settle(c1, Returned(periods))]

\* a variant that resolves the endpoint whatever the points-cache holds
beginCallAlwaysResolve(R, lat, lon, t) ==
    LET latNum == toNum(lat)
        lonNum == toNum(lon)
        c == NewCall(lat, lon)
    IN  IF InvalidCoord(latNum, lonNum)
        THEN [R |-> R,
              call |-> Settle(c, Threw(Err(<<"lat and lon must be valid numbers">>, 400),
                                       "input"))]
        ELSE [R |-> [R EXCEPT !.points = cacheGetMap(R.points,
                                                     coordKeyOf(latNum, lonNum), t)],
              call |-> [c EXCEPT !.coordKey = coordKeyOf(latNum, lonNum),
                                 !.pc = "awaitPoints"]]

\* a variant without the test of line 61
beginCallUnchecked(R, lat, lon, t) ==
    LET coordKey == coordKeyOf(toNum(lat), toNum(lon))
        forecastUrl == cacheGet(R.points, coordKey, t)
        R1 == [R EXCEPT !.points = cacheGetMap(R.points, coordKey, t)]
        c1 == [NewCall(lat, lon) EXCEPT !.coordKey = coordKey]
    IN  IF ~Truthy(forecastUrl)
        THEN [R |-> R1, call |-> [c1 EXCEPT !.pc = "awaitPoints"]]
        ELSE lookupForecast(R1, c1, forecastUrl, t)

\* lines 58-75: validation, the coordinate key, the points lookup
beginCall(R, lat, lon, t) ==
    LET latNum == toNum(lat)
        lonNum == toNum(lon)
        c == NewCall(lat, lon)
    IN  IF InvalidCoord(latNum, lonNum)
        THEN [R |-> R,
              call |-> Settle(c, Threw(Err(<<"lat and lon must be valid numbers">>, 400),
                                       "input"))]
        ELSE LET coordKey == coordKeyOf(latNum, lonNum)
                 forecastUrl == cacheGet(R.points, coordKey, t)
                 R1 == [R EXCEPT !.points = cacheGetMap(R.points, coordKey, t)]
                 c1 == [c EXCEPT !.coordKey = coordKey]
             IN  IF ~Truthy(forecastUrl)
                 THEN [R |-> R1,
                       call |-> [c1 EXCEPT !.pc = "awaitPoints"]]
                 ELSE lookupForecast(R1, c1, forecastUrl, t)

\* a variant that writes the points-cache before it looks at what came back
onPointsStoreFirst(R, c, res, t) ==
    LET got == fetchJson(res)
    IN  IF got.threw THEN [R |-> R, call |-> Settle(c, Threw(got.err, "points"))]
        ELSE LET forecastUrl == got.data.forecast
                 R1 == [R EXCEPT !.points = cacheSet(R.points, c.coordKey, forecastUrl,
                                                     TTL_points, t)]
             IN  IF ~Truthy(forecastUrl)
                 THEN [R |-> R1,
                       call |-> Settle(c, Threw(Err(<<"NWS points response missing forecast URL">>,
                                                    502), "points"))]
                 ELSE lookupForecast(R1, c, forecastUrl, t)

\* a variant that sends the points request again when it failed
onPointsRetry(R, c, res, t) ==
    LET got == fetchJson(res)
    IN  IF got.threw THEN [R |-> R, call |-> c]
        ELSE LET forecastUrl == got.data.forecast
             IN  IF ~Truthy(forecastUrl)
                 THEN [R |-> R,
                       call |-> Settle(c, Threw(Err(<<"NWS points response missing forecast URL">>,
                                                    502), "points"))]
                 ELSE lookupForecast(
                          [R EXCEPT !.points = cacheSet(R.points, c.coordKey, forecastUrl,
                                                        TTL_points, t)],
                          c, forecastUrl, t)

\* a variant that leaves the points-cache alone
onPointsNoStore(R, c, res, t) ==
    LET got == fetchJson(res)
    IN  IF got.threw THEN [R |-> R, call |-> Settle(c, Threw(got.err, "points"))]
        ELSE LET forecastUrl == got.data.forecast
             IN  IF ~Truthy(forecastUrl)
                 THEN [R |-> R,
                       call |-> Settle(c, Threw(Err(<<"NWS points response missing forecast URL">>,
                                                    502), "points"))]
                 ELSE lookupForecast(R, c, forecastUrl, t)

\* a variant in which a call fails when another call has resolved its key
\* while it waited
onPointsExclusive(R, c, res, t) ==
    LET got == fetchJson(res)
    IN  IF got.threw THEN [R |-> R, call |-> Settle(c, Threw(got.err, "points"))]
        ELSE LET forecastUrl == got.data.forecast
             IN  IF ~Truthy(forecastUrl)
                 THEN [R |-> R,
                       call |-> Settle(c, Threw(Err(<<"NWS points response missing forecast URL">>,
                                                    502), "points"))]
                 ELSE IF c.coordKey \in DOMAIN R.points
                 THEN [R |-> R, call |-> Settle(c, Threw(Err(<<"conflict">>, 409), "points"))]
                 ELSE lookupForecast(
                          [R EXCEPT !.points = cacheSet(R.points, c.coordKey, forecastUrl,
                                                        TTL_points, t)],
                          c, forecastUrl, t)

\* lines 72-85, from the response of the points request on
onPoints(R, c, res, t) ==
    LET got == fetchJson(res)
    IN  IF got.threw THEN [R |-> R, call |-> Settle(c, Threw(got.err, "points"))]
        ELSE LET forecastUrl == got.data.forecast
             IN  IF ~Truthy(forecastUrl)
                 THEN [R |-> R,
                       call |-> Settle(c, Threw(Err(<<"NWS points response missing forecast URL">>,
                                                    502), "points"))]
                 ELSE lookupForecast(
                          [R EXCEPT !.points = cacheSet(R.points, c.coordKey, forecastUrl,
                                                        TTL_points, t)],
                          c, forecastUrl, t)

\* a variant that returns the periods without writing the forecast-cache
onForecastNoStore(R, c, res, t) ==
    LET got == fetchJson(res)
    IN  IF got.threw THEN [R |-> R, call |-> Settle(c, Threw(got.err, "forecast"))]
        ELSE [R |-> R, call |-> Settle(c, Returned(Coalesce(got.data.periods, Arr(<<>>))))]

\* a variant that takes a response without periods for a protocol error
onForecastRequirePeriods(R, c, res, t) ==
    LET got == fetchJson(res)
    IN  IF got.threw THEN [R |-> R, call |-> Settle(c, Threw(got.err, "forecast"))]
        ELSE IF IsNullish(got.data.periods)
        THEN [R |-> R,
              call |-> Settle(c, Threw(Err(<<"NWS forecast response missing periods">>,
                                           502), "forecast"))]
        ELSE [R |-> [R EXCEPT !.forecast = cacheSet(R.forecast, c.forecastUrl,
                                                    got.data.periods, TTL_forecast, t)],
              call |-> Settle(c, Returned(got.data.periods))]

\* a variant that keeps the forecast as long as the endpoint
onForecastLongTtl(R, c, res, t) ==
    LET got == fetchJson(res)
    IN  IF got.threw THEN [R |-> R, call |-> Settle(c, Threw(got.err, "forecast"))]
        ELSE LET periods == Coalesce(got.data.periods, Arr(<<>>))
             IN  [R |-> [R EXCEPT !.forecast = cacheSet(R.forecast, c.forecastUrl, periods,
                                                        TTL_points, t)],
                  call |-> Settle(c, Returned(periods))]

\* a variant that forgets the endpoint when its forecast request fails
onForecastDropEndpoint(R, c, res, t) ==
    LET got == fetchJson(res)
    IN  IF got.threw
        THEN [R |-> [R EXCEPT !.points = MapDelete(R.points, c.coordKey)],
              call |-> Settle(c, Threw(got.err, "forecast"))]
        ELSE LET periods == Coalesce(got.data.periods, Arr(<<>>))
             IN  [R |-> [R EXCEPT !.forecast = cacheSet(R.forecast, c.forecastUrl, periods,
                                                        TTL_forecast, t)],
                  call |-> Settle(c, Returned(periods))]

\* lines 90-95, from the response of the forecast request on
onForecast(R, c, res, t) ==
    LET got == fetchJson(res)
    IN  IF got.threw THEN [R |-> R, call |-> Settle(c, Threw(got.err, "forecast"))]
        ELSE LET periods == Coalesce(got.data.periods, Arr(<<>>))
             IN  [R |-> [R EXCEPT !.forecast = cacheSet(R.forecast, c.forecastUrl, periods,
                                                        TTL_forecast, t)],
                  call |-> Settle(c, Returned(periods))]

----------------------------------------------------------------------------
(* The clock *)

\* Date.now() never goes back; the model looks at it at the instants of Times
Advance(Times) == \E t \in Times : t > now /\ now' = t

----------------------------------------------------------------------------
(* cacheGet and cacheSet on a Map of their own *)

CacheKeys == {"a", "b"}
CacheValues == {Str("x"), Str("y")}
CacheTtls == {0, 1, 2}

NoGet ==
    [done |-> FALSE, key |-> "a", had |-> FALSE, expiresAt |-> 0, at |-> 0,
     returned |-> Null, kept |-> FALSE]

\* reads: the cacheGet calls of the key since it was written, "none", "one"
\* or "more"
NoSet ==
    [done |-> FALSE, key |-> "a", value |-> Null, ttlMs |-> 0, at |-> 0, reads |-> "none"]

CacheSetOp(key, value, ttlMs) ==
    /\ map' = cacheSet(map, key, value, ttlMs, now)
    /\ lastSet' = [done |-> TRUE, key |-> key, value |-> value, ttlMs |-> ttlMs,
                   at |-> now, reads |-> "none"]
    /\ UNCHANGED <<now, lastGet, placesVars, listVars, resolveVars, batchVars>>

CacheGetOp(key) ==
    /\ map' = cacheGetMap(map, key, now)
    /\ lastGet' =
           [done |-> TRUE, key |-> key, had |-> key \in DOMAIN map,
            expiresAt |-> IF key \in DOMAIN map THEN map[key].expiresAt ELSE 0,
            at |-> now, returned |-> cacheGet(map, key, now),
            kept |-> key \in DOMAIN map']
    /\ lastSet' = IF lastSet.done /\ lastSet.key = key
                  THEN [lastSet EXCEPT !.reads = IF @ = "none" THEN "one" ELSE "more"]
                  ELSE lastSet
    /\ UNCHANGED <<now, placesVars, listVars, resolveVars, batchVars>>

CacheTick ==
    /\ Advance(0..MaxTime)
    /\ UNCHANGED <<cacheVars, placesVars, listVars, resolveVars, batchVars>>

----------------------------------------------------------------------------
(* Initial state: the module has just been loaded *)

EmptyMap == [k \in {} |-> Null]

MaxBatch == 50
BatchLimit == 6

Clients == {1}
RunnerProc(w) == 10 + w
Procs == Clients \cup {RunnerProc(w) : w \in 1..BatchLimit}

----------------------------------------------------------------------------
(* POST /:listId/locations: adding a location to a list *)

\* the most add-location requests of one behaviour
MaxAdds == 3

\* the owner of the list and another user
Owner == "u1"
Stranger == "u2"

\* ObjectIds: the ones of the Location documents that exist from the start,
\* one that names no document, and the ones the upserts hand out
Oid(n) == Str(<<"L1", "L2", "L3", "L4", "L5", "L6", "L7">>[n])
MissingId == Str("L0")

\* Math.round(x * 1e6): the nearest integer, a tie going towards +Infinity
roundE6(x) ==
    LET mag == x.ip * 1000000 + (x.fp \div 100)
        rest == x.fp % 100
    IN  IF x.neg THEN 0 - (IF rest > 50 THEN mag + 1 ELSE mag)
        ELSE IF rest >= 50 THEN mag + 1 ELSE mag

\* the template string `${loE6}|${laE6}` is kept as the pair of its numbers
coordKeyFrom(lon, lat) ==
    LET lo == Number(lon)
        la == Number(lat)
    IN  IF ~IsFinite(lo) \/ ~IsFinite(la) THEN Null
        ELSE [t |-> "key", lo |-> roundE6(lo), la |-> roundE6(la)]

\* a Location document, as far as the handler reads it
LocationDoc(author, longitude, latitude) ==
    [author |-> author, longitude |-> longitude, latitude |-> latitude]

\* an entry of list.locations as listLocationSchema keeps it: the schema has
\* no coordKey path, so the coordKey of the pushed object is not part of it
ListEntry(location, order) == [location |-> location, order |-> order]

IdleAdd == [pc |-> "idle"]

\* list.locations.some((e) => e.location.toString() === locationId.toString())
alreadyById(doc, locationId) == \E i \in 1..Len(doc) : doc[i].location = locationId

\* the entries after list.populate: each with its Location document, or with
\* null in its place when the document is gone
populate(doc, docs) ==
    [i \in 1..Len(doc) |->
        IF doc[i].location \in DOMAIN docs THEN docs[doc[i].location] ELSE Null]

\* no entry carries a coordKey, so each is compared through its document
alreadyByCoords(doc, docs, coordKey) ==
    LET populated == populate(doc, docs)
    IN  \E i \in 1..Len(doc) :
            /\ populated[i] # Null
            /\ coordKeyFrom(populated[i].longitude, populated[i].latitude) = coordKey

Max2(a, b) == IF a >= b THEN a ELSE b

RECURSIVE maxOrder(_)
maxOrder(doc) == IF doc = <<>> THEN 0 - 1 ELSE Max2(maxOrder(Tail(doc)), Head(doc).order)

\* what is kept of an answered request
AddAnswer(a, status) ==
    [user |-> a.user, body |-> a.body, status |-> status, alone |-> a.alone]

\* the request of slot s is answered with status; nothing stored changes
Answer(s, status) ==
    /\ answered' = Append(answered, AddAnswer(adds[s], status))
    /\ adds' = [adds EXCEPT ![s] = IdleAdd]
    /\ UNCHANGED <<locationDocs, list>>

AddSlots == 1..2

AddsInFlight == {s \in AddSlots : adds[s].pc # "idle"}

\* line 179: the request arrives and asks for the list
AddRequest(s, user, body) ==
    /\ adds[s].pc = "idle"
    /\ Len(answered) + Cardinality(AddsInFlight) < MaxAdds
    /\ adds' = [t \in AddSlots |->
                   IF t = s
                   THEN [pc |-> "findList", user |-> user, body |-> body,
                         alone |-> AddsInFlight = {}]
                   ELSE IF adds[t].pc = "idle" THEN adds[t]
                   ELSE [adds[t] EXCEPT !.alone = FALSE]]
    /\ UNCHANGED <<locationDocs, list, answered>>
    /\ UNCHANGED <<now, cacheVars, placesVars, resolveVars, batchVars>>

\* lines 9-14 and 179-226, from the answer of List.findById to the next await:
\* the upsert for a body of raw data, Location.findById for a locationId
ListFound(s) ==
    /\ adds[s].pc = "findList"
    /\ LET a == adds[s]
           lon == Number(a.body.longitude)
           lat == Number(a.body.latitude)
       IN  IF a.user # Owner THEN Answer(s, 403)
           ELSE IF ~Truthy(a.body.locationId)
           THEN IF ~Truthy(a.body.name) \/ ~IsFinite(lon) \/ ~IsFinite(lat)
                THEN Answer(s, 400)
                ELSE /\ adds' = [adds EXCEPT ![s] = [pc |-> "upsert", user |-> a.user,
                                                     body |-> a.body, alone |-> a.alone,
                                                     doc |-> list]]
                     /\ UNCHANGED <<locationDocs, list, answered>>
           ELSE IF alreadyById(list, a.body.locationId) THEN Answer(s, 409)
           ELSE /\ adds' = [adds EXCEPT ![s] = [pc |-> "findLocation", user |-> a.user,
                                                body |-> a.body, alone |-> a.alone,
                                                doc |-> list,
                                                locationId |-> a.body.locationId]]
                /\ UNCHANGED <<locationDocs, list, answered>>
    /\ UNCHANGED <<now, cacheVars, placesVars, resolveVars, batchVars>>

\* Location.findOneAndUpdate with upsert: the document of this author at
\* exactly these coordinates, made when there is none
upsertId(docs, author, lon, lat) ==
    LET found == {id \in DOMAIN docs : docs[id] = LocationDoc(author, lon, lat)}
    IN  IF found # {} THEN CHOOSE id \in found : TRUE
        ELSE Oid(Cardinality(DOMAIN docs) + 1)

\* lines 197-239, from the answer of the upsert to list.populate
Upserted(s) ==
    /\ adds[s].pc = "upsert"
    /\ LET a == adds[s]
           lon == Number(a.body.longitude)
           lat == Number(a.body.latitude)
           locationId == upsertId(locationDocs, a.user, lon, lat)
           coordKey == coordKeyFrom(lon, lat)
       IN  /\ locationDocs' =
                  [id \in DOMAIN locationDocs \cup {locationId} |->
                      IF id \in DOMAIN locationDocs THEN locationDocs[id]
                      ELSE LocationDoc(a.user, lon, lat)]
           /\ IF alreadyById(a.doc, locationId)
              THEN /\ answered' = Append(answered, AddAnswer(a, 409))
                   /\ adds' = [adds EXCEPT ![s] = IdleAdd]
              ELSE IF coordKey = Null
              THEN /\ answered' = Append(answered, AddAnswer(a, 400))
                   /\ adds' = [adds EXCEPT ![s] = IdleAdd]
              ELSE /\ adds' = [adds EXCEPT ![s] = [pc |-> "populate", user |-> a.user,
                                                   body |-> a.body, alone |-> a.alone,
                                                   doc |-> a.doc,
                                                   locationId |-> locationId,
                                                   coordKey |-> coordKey]]
                   /\ answered' = answered
           /\ list' = list
    /\ UNCHANGED <<now, cacheVars, placesVars, resolveVars, batchVars>>

\* lines 226-239, from the answer of Location.findById to list.populate
LocationFound(s) ==
    /\ adds[s].pc = "findLocation"
    /\ LET a == adds[s]
           found == a.locationId \in DOMAIN locationDocs
           coordKey == coordKeyFrom(locationDocs[a.locationId].longitude,
                                    locationDocs[a.locationId].latitude)
       IN  IF ~found THEN Answer(s, 404)
           ELSE IF coordKey = Null THEN Answer(s, 400)
           ELSE /\ adds' = [adds EXCEPT ![s] = [pc |-> "populate", user |-> a.user,
                                                body |-> a.body, alone |-> a.alone,
                                                doc |-> a.doc,
                                                locationId |-> a.locationId,
                                                coordKey |-> coordKey]]
                /\ UNCHANGED <<locationDocs, list, answered>>
    /\ UNCHANGED <<now, cacheVars, placesVars, resolveVars, batchVars>>

\* lines 239-262, from the answer of list.populate to list.save: the entry is
\* pushed on the document this request loaded
Populated(s) ==
    /\ adds[s].pc = "populate"
    /\ LET a == adds[s]
       IN  IF alreadyByCoords(a.doc, locationDocs, a.coordKey) THEN Answer(s, 409)
           ELSE /\ adds' = [adds EXCEPT ![s] =
                               [a EXCEPT !.pc = "save",
                                         !.doc = Append(a.doc,
                                                        ListEntry(a.locationId,
                                                                  maxOrder(a.doc) + 1))]]
                /\ UNCHANGED <<locationDocs, list, answered>>
    /\ UNCHANGED <<now, cacheVars, placesVars, resolveVars, batchVars>>

\* the List document of this model, and another list that holds a location too
ListId == "list1"
OtherLists == [list2 |-> <<ListEntry(Oid(1), 0)>>]

\* the keys of the index { _id: 1, 'locations.location': 1 } for one document:
\* one key per distinct value of the array
indexKeys(id, doc) == {<<id, doc[i].location>> : i \in 1..Len(doc)}

\* a unique index refuses a key that another document holds
duplicateKey(id, doc) ==
    \E other \in (DOMAIN OtherLists) \ {id} :
        indexKeys(id, doc) \cap indexKeys(other, OtherLists[other]) # {}

\* lines 262-264 and 273-279, list.save(): the pushed entry is appended to the
\* stored array ($push); error 11000 is answered with 409
Saved(s) ==
    /\ adds[s].pc = "save"
    /\ LET a == adds[s]
           stored == Append(list, a.doc[Len(a.doc)])
       IN  IF duplicateKey(ListId, stored) THEN Answer(s, 409)
           ELSE /\ list' = stored
                /\ adds' = [adds EXCEPT ![s] = [a EXCEPT !.pc = "populateSaved"]]
                /\ UNCHANGED <<locationDocs, answered>>
    /\ UNCHANGED <<now, cacheVars, placesVars, resolveVars, batchVars>>

\* lines 264-272, from the answer of the second list.populate on: 201
Created(s) ==
    /\ adds[s].pc = "populateSaved"
    /\ Answer(s, 201)
    /\ UNCHANGED <<now, cacheVars, placesVars, resolveVars, batchVars>>

\* two coordinates a tenth of a millionth of a degree apart
ListLon == Fin(TRUE, 104, 99000010)
ListLonNear == Fin(TRUE, 104, 99000020)
ListLat == Fin(FALSE, 39, 74000000)

\* the Location documents there are from the start: one of the owner and one
\* of another user next to it
InitialDocs ==
    [id \in {Oid(1), Oid(2)} |->
        IF id = Oid(1) THEN LocationDoc(Owner, ListLon, ListLat)
        ELSE LocationDoc(Stranger, ListLonNear, ListLat)]

AddBody(locationId, name, longitude, latitude) ==
    [locationId |-> locationId, name |-> name, longitude |-> longitude,
     latitude |-> latitude]

ById(id) == AddBody(id, Undefined, Undefined, Undefined)
Raw(name, longitude, latitude) == AddBody(Undefined, name, longitude, latitude)

\* req.user._id and req.body
AddInputs ==
    ({Owner} \X {ById(Oid(1)), ById(Oid(2)), ById(MissingId),
                 Raw(Str("a"), ListLon, ListLat), Raw(Str("b"), ListLonNear, ListLat),
                 Raw(Str("a"), Chars(<<"a", "b", "c">>), ListLat),
                 Raw(Undefined, ListLon, ListLat)})
        \cup {<<Stranger, ById(Oid(1))>>}

ListNext ==
    \/ \E s \in AddSlots : \E in \in AddInputs : AddRequest(s, in[1], in[2])
    \/ \E s \in AddSlots : ListFound(s)
    \/ \E s \in AddSlots : Upserted(s)
    \/ \E s \in AddSlots : LocationFound(s)
    \/ \E s \in AddSlots : Populated(s)
    \/ \E s \in AddSlots : Saved(s)
    \/ \E s \in AddSlots : Created(s)


\* a handler invocation that has not begun
NoInvocation ==
    [locations |-> <<>>, limit |-> 0, batch |-> "idle", idx |-> 0, results |-> <<>>,
     runner |-> <<>>, claimed |-> <<>>, outcomes |-> <<>>, response |-> [status |-> 0],
     call |-> [p \in {RunnerProc(w) : w \in 1..BatchLimit} |-> IdleCall]]

Init ==
    /\ now = 0
    /\ map = EmptyMap
    /\ lastGet = NoGet
    /\ lastSet = NoSet
    /\ pointsCache = EmptyMap
    /\ forecastCache = EmptyMap
    /\ call = [p \in Procs |-> IdleCall]
    /\ hist = [p \in Clients |-> NoHist]
    /\ log = <<>>
    /\ locations = <<>>
    /\ limit = 0
    /\ batch = "idle"
    /\ idx = 0
    /\ results = <<>>
    /\ runner = <<>>
    /\ claimed = <<>>
    /\ outcomes = <<>>
    /\ response = [status |-> 0]
    /\ inv2 = NoInvocation
    /\ placesCache = EmptyMap
    /\ search = [pc |-> "idle"]
    /\ locationDocs = InitialDocs
    /\ list = <<>>
    /\ adds = [s \in AddSlots |-> IdleAdd]
    /\ answered = <<>>
    /\ searches = <<>>

CacheNext ==
    \/ \E key \in CacheKeys, value \in CacheValues, ttlMs \in CacheTtls :
           CacheSetOp(key, value, ttlMs)
    \/ \E key \in CacheKeys : CacheGetOp(key)
    \/ CacheTick

SpecCache == Init /\ [][CacheNext]_vars

----------------------------------------------------------------------------
(* GET /weather: one getForecastForLatLon per request *)

Shared == [points |-> pointsCache, forecast |-> forecastCache]

\* what the route answers: 200, or err.status || 500
routeStatus(outcome) ==
    IF outcome.t = "returned" THEN 200
    ELSE IF outcome.err.status # 0 THEN outcome.err.status ELSE 500

\* what is kept of a settled call: the call, its history h, the status the
\* route answers, whether the points-cache holds its key when it settles, and
\* the forecast-cache entry of its forecast URL then
LogEntry(p, c, h, R) ==
    [caller |-> p, lat |-> c.lat, lon |-> c.lon, coordKey |-> c.coordKey,
     forecastUrl |-> c.forecastUrl, nPoints |-> h.nPoints, nForecast |-> h.nForecast,
     startedAt |-> h.startedAt, endedAt |-> now, outcome |-> c.outcome,
     status |-> routeStatus(c.outcome), pointsKept |-> c.coordKey \in DOMAIN R.points,
     forecastKept |-> IF c.forecastUrl \in DOMAIN R.forecast
                      THEN R.forecast[c.forecastUrl] ELSE Null,
     pointsLookup |-> h.pointsLookup, forecastLookup |-> h.forecastLookup]

\* the history h of a call after a segment that left the call as c: a call
\* left at awaitPoints or awaitForecast has just sent that request
Sent(h, c) ==
    [h EXCEPT !.nPoints = IF c.pc = "awaitPoints" THEN @ + 1 ELSE @,
              !.nForecast = IF c.pc = "awaitForecast" THEN @ + 1 ELSE @]

\* what `if (!cacheGet(m, key))` of lines 70-71 and 87-88 finds: a live
\* truthy value ("hit"), an entry past its expiry ("expired"), or nothing
Lookup(m, key, t) ==
    IF Truthy(cacheGet(m, key, t)) THEN "hit"
    ELSE IF key \in DOMAIN m /\ Expired(m[key], t) THEN "expired"
    ELSE "miss"

\* the history h after a segment that took the call from c0 to c1 with the
\* caches R before it: the segment that computes coordKey reads the
\* points-cache, the segment that obtains forecastUrl reads the forecast-cache
Looked(h, c0, c1, R, t) ==
    [h EXCEPT !.pointsLookup =
                  IF c0.coordKey = Null /\ c1.coordKey # Null
                  THEN Lookup(R.points, c1.coordKey, t) ELSE @,
              !.forecastLookup =
                  IF c0.forecastUrl = Null /\ c1.forecastUrl # Null
                  THEN Lookup(R.forecast, c1.forecastUrl, t) ELSE @]

\* the state after a segment of caller p: a client's settled call is answered
\* and logged at once, a runner's waits for its runner
Apply(p, h, out) ==
    LET c0 == IF call[p].pc = "idle" THEN NewCall(Null, Null) ELSE call[p]
        h1 == Looked(h, c0, out.call, Shared, now)
    IN  /\ pointsCache' = out.R.points
        /\ forecastCache' = out.R.forecast
        /\ IF p \in Clients /\ out.call.pc = "settled"
           THEN /\ call' = [call EXCEPT ![p] = IdleCall]
                /\ hist' = [hist EXCEPT ![p] = NoHist]
                /\ log' = Append(log, LogEntry(p, out.call, h1, out.R))
           ELSE /\ call' = [call EXCEPT ![p] = out.call]
                /\ hist' = IF p \in Clients
                           THEN [hist EXCEPT ![p] = Sent(h1, out.call)]
                           ELSE hist
                /\ log' = log

\* raw (lat, lon) pairs a request may carry
C_(s) == Chars(s)
LatA1 == C_(<<"4", "0", ".", "7", "1", "2", "3", "4", "4", "9", "9">>)
LonA1 == C_(<<"-", "7", "4", ".", "0", "0", "5", "9", "9", "5", "0", "1">>)
LatA2 == C_(<<"4", "0", ".", "7", "1", "2", "3", "4", "5", "0", "1">>)
LonA2 == C_(<<"-", "7", "4", ".", "0", "0", "5", "9", "9", "4", "9", "9">>)
LatB == C_(<<"3", "4", ".", "0", "5">>)
LonB == C_(<<"-", "1", "1", "8", ".", "2", "5">>)

CoordPool == {<<LatA1, LonA1>>, <<LatA2, LonA2>>, <<LatB, LonB>>}

Request(p, lat, lon) ==
    /\ call[p].pc = "idle"
    /\ Apply(p, [NoHist EXCEPT !.startedAt = now], beginCall(Shared, lat, lon, now))
    /\ UNCHANGED <<now, cacheVars, placesVars, listVars, batchVars>>

PointsResponse(p, res) ==
    /\ call[p].pc = "awaitPoints"
    /\ Apply(p, IF p \in Clients THEN hist[p] ELSE NoHist,
             onPoints(Shared, call[p], res, now))
    /\ UNCHANGED <<now, cacheVars, placesVars, listVars, batchVars>>

ForecastResponse(p, res) ==
    /\ call[p].pc = "awaitForecast"
    /\ Apply(p, IF p \in Clients THEN hist[p] ELSE NoHist,
             onForecast(Shared, call[p], res, now))
    /\ UNCHANGED <<now, cacheVars, placesVars, listVars, batchVars>>

\* the instants around the expiry of what is written at 0: a forecast entry
\* ends at TTL_forecast, a points entry at TTL_points
ResolveTimes == {0, TTL_forecast, TTL_points - 1, TTL_points, TTL_points + 1}

ResolveTick ==
    /\ Advance(ResolveTimes)
    /\ UNCHANGED <<cacheVars, placesVars, listVars, resolveVars, batchVars>>

ResolveNext ==
    \/ \E p \in Clients, xy \in CoordPool : Len(log) < MaxCalls /\ Request(p, xy[1], xy[2])
    \/ \E p \in Clients, res \in PointsResponses : PointsResponse(p, res)
    \/ \E p \in Clients, res \in ForecastResponses : ForecastResponse(p, res)
    \/ ResolveTick

SpecResolve == Init /\ [][ResolveNext]_vars

----------------------------------------------------------------------------
(* POST /weather/batch and mapWithConcurrency *)

Min(a, b) == IF a < b THEN a ELSE b

Hole == [t |-> "hole"]

Loc(name, lat, lon, latitude, longitude) ==
    [name |-> name, lat |-> lat, lon |-> lon, latitude |-> latitude,
     longitude |-> longitude]

\* the arguments the worker hands to getForecastForLatLon
locLat(loc) == Coalesce(loc.lat, loc.latitude)
locLon(loc) == Coalesce(loc.lon, loc.longitude)
locName(loc) == Coalesce(loc.name, Null)

NumberOrNull(v) == IF IsNullish(v) THEN Null ELSE Number(v)

\* a variant that reports a failed item as an empty forecast
workerResultSwallow(loc, outcome) ==
    [name |-> locName(loc), lat |-> Number(locLat(loc)), lon |-> Number(locLon(loc)),
     forecast |-> IF outcome.t = "returned" THEN outcome.periods ELSE Arr(<<>>)]

\* a variant that reports a failed item with an empty forecast beside its error
workerResultEmptyOnFailure(loc, outcome) ==
    IF outcome.t = "returned"
    THEN [name |-> locName(loc), lat |-> Number(locLat(loc)),
          lon |-> Number(locLon(loc)), forecast |-> outcome.periods]
    ELSE [name |-> locName(loc), lat |-> NumberOrNull(locLat(loc)),
          lon |-> NumberOrNull(locLon(loc)), forecast |-> Arr(<<>>),
          error |-> outcome.err.message]

\* lines 207-223: what the worker returns once getForecastForLatLon settled
workerResult(loc, outcome) ==
    IF outcome.t = "returned"
    THEN [name |-> locName(loc), lat |-> Number(locLat(loc)),
          lon |-> Number(locLon(loc)), forecast |-> outcome.periods]
    ELSE [name |-> locName(loc), lat |-> NumberOrNull(locLat(loc)),
          lon |-> NumberOrNull(locLon(loc)), forecast |-> Null,
          error |-> outcome.err.message]

\* a variant that spawns one runner per item
NumRunnersPerItem(lim, n) == n
\* a variant that spawns a single runner
NumRunnersOne(lim, n) == Min(1, n)
\* line 101: how many runners are spawned
NumRunners(lim, n) == Min(lim, n)

\* a variant that steps over an index
postIncrementTwice(i) == i + 2
\* line 103: idx after idx++
postIncrement(i) == i + 1

\* a variant that puts the results in the order they arrive
storeResultInArrivalOrder(res, i, r) ==
    LET free == {j \in 1..Len(res) : res[j] = Hole}
    IN  IF free = {} THEN res
        ELSE [res EXCEPT ![CHOOSE j \in free : \A k \in free : j <= k] = r]
\* line 105: results[i] = ...
storeResult(res, i, r) == [res EXCEPT ![i + 1] = r]

\* a variant without the cap
TooManyNever(n) == FALSE
\* line 198
TooMany(n) == n > MaxBatch

\* B is what the runners share: the caches, the calls, idx and the runners.
\* Lines 103-105 up to the await: runner w takes the next index and, if there
\* is one, calls the worker, which runs getForecastForLatLon to its first await.
claimStep(B, w, items, t) ==
    LET i == B.idx
        B1 == [B EXCEPT !.idx = postIncrement(i)]
    IN  IF i >= Len(items)
        THEN [B1 EXCEPT !.runner[w] = [pc |-> "done"]]
        ELSE LET out == beginCall(B.R, locLat(items[i + 1]), locLon(items[i + 1]), t)
             IN  [B1 EXCEPT !.R = out.R,
                            !.call[RunnerProc(w)] = out.call,
                            !.runner[w] = [pc |-> "busy", i |-> i],
                            !.claimed = Append(@, i)]

\* line 101: the runners are started one after the other, each up to its first await
RECURSIVE spawn(_, _, _, _, _)
spawn(B, w, k, items, t) ==
    IF w > k THEN B ELSE spawn(claimStep(B, w, items, t), w + 1, k, items, t)

Pool == [R |-> Shared, call |-> call, idx |-> idx, runner |-> runner, claimed |-> claimed]

ApplyPool(B) ==
    /\ pointsCache' = B.R.points
    /\ forecastCache' = B.R.forecast
    /\ call' = B.call
    /\ idx' = B.idx
    /\ runner' = B.runner
    /\ claimed' = B.claimed

\* lines 192-202: the handler up to its first await
BatchRequest(body, lim) ==
    /\ batch = "idle"
    /\ LET locs == IF body.t = "array" THEN body.a ELSE <<>>
           n == Len(locs)
       IN  /\ locations' = locs
           /\ limit' = lim
           /\ IF n = 0
              THEN /\ response' = [status |-> 200, results |-> <<>>]
                   /\ batch' = "done"
                   /\ UNCHANGED <<pointsCache, forecastCache, call, idx, runner, claimed,
                                  results, outcomes>>
              ELSE IF TooMany(n)
              THEN /\ response' = [status |-> 413, err |-> "Too many locations. Max 50."]
                   /\ batch' = "done"
                   /\ UNCHANGED <<pointsCache, forecastCache, call, idx, runner, claimed,
                                  results, outcomes>>
              ELSE /\ results' = [i \in 1..n |-> Hole]
                   /\ outcomes' = [i \in 1..n |-> Pending]
                   /\ batch' = "running"
                   /\ response' = response
                   /\ ApplyPool(spawn([Pool EXCEPT !.idx = 0,
                                                   !.runner = [w \in 1..NumRunners(lim, n) |->
                                                                  [pc |-> "new"]]],
                                      1, NumRunners(lim, n), locs, now))
    /\ UNCHANGED <<now, cacheVars, placesVars, listVars, hist, log, inv2>>

\* line 105 after the await, and the next turn of the loop
RunnerResume(w) ==
    /\ batch = "running"
    /\ w \in DOMAIN runner
    /\ runner[w].pc = "busy"
    /\ call[RunnerProc(w)].pc = "settled"
    /\ LET i == runner[w].i
           outcome == call[RunnerProc(w)].outcome
       IN  /\ results' = storeResult(results, i, workerResult(locations[i + 1], outcome))
           /\ outcomes' = [outcomes EXCEPT ![i + 1] = outcome]
           /\ ApplyPool(claimStep([Pool EXCEPT !.call[RunnerProc(w)] = IdleCall],
                                  w, locations, now))
    /\ UNCHANGED <<now, cacheVars, placesVars, listVars, hist, log, locations, limit, batch,
                   response, inv2>>

\* Promise.race in the place of Promise.all: one runner has returned
PromiseAny(r) == \E w \in DOMAIN r : r[w].pc = "done"

\* line 108: Promise.all(runners) settles once every runner has returned
PromiseAll(r) == \A w \in DOMAIN r : r[w].pc = "done"

\* lines 108-109 and 226: every runner has returned
BatchRespond ==
    /\ batch = "running"
    /\ PromiseAll(runner)
    /\ batch' = "done"
    /\ response' = [status |-> 200, results |-> results]
    /\ UNCHANGED <<now, cacheVars, placesVars, listVars, resolveVars, locations, limit, idx,
                   results, runner, claimed, outcomes, inv2>>

NameA == Str("A")
ItemA == Loc(NameA, Fin(FALSE, 40, 71280000), Fin(TRUE, 74, 600000), Undefined, Undefined)
ItemB == Loc(Undefined, Undefined, Undefined, LatB, LonB)
ItemBad == Loc(Str("C"), Chars(<<"a", "b", "c">>), Fin(FALSE, 1, 0), Undefined, Undefined)
ItemPool == {ItemA, ItemB, ItemBad}

RECURSIVE SeqsUpTo(_, _)
SeqsUpTo(S, n) ==
    IF n = 0 THEN {<<>>}
    ELSE LET shorter == SeqsUpTo(S, n - 1)
         IN  shorter \cup {Append(q, x) : q \in shorter, x \in S}

Oversize == [i \in 1..(MaxBatch + 1) |-> ItemA]

Bodies ==
    {Arr(q) : q \in SeqsUpTo(ItemPool, MaxItems)} \cup {Arr(Oversize), Undefined}

\* the route passes BatchLimit; the smaller limits are those of
\* mapWithConcurrency called with fewer runners than items
Limits == (1..MaxLimit) \cup {BatchLimit}

BatchTimes == {0, TTL_forecast}

BatchTick ==
    /\ Advance(BatchTimes)
    /\ UNCHANGED <<cacheVars, placesVars, listVars, resolveVars, batchVars>>

\* the upstream answers of a batch: the points request succeeds, the forecast
\* request succeeds or fails; an item also fails on its own coordinates (ItemBad)
BatchPointsResponses == {HttpOk([forecast |-> Str("U1")])}
BatchForecastResponses == {HttpOk([periods |-> Arr(<<"p1">>)]), HttpFail(503)}

RunnerProcs == {RunnerProc(w) : w \in 1..BatchLimit}

BatchNext ==
    \/ \E body \in Bodies, lim \in Limits : BatchRequest(body, lim)
    \/ \E p \in RunnerProcs, res \in BatchPointsResponses : PointsResponse(p, res)
    \/ \E p \in RunnerProcs, res \in BatchForecastResponses : ForecastResponse(p, res)
    \/ \E w \in 1..BatchLimit : RunnerResume(w)
    \/ BatchRespond
    \/ BatchTick

SpecBatch == Init /\ [][BatchNext]_vars

\* A batch in which the upstream may leave the calls of ItemA unanswered for
\* ever and answers every other call.
MayHang(w) == locations[runner[w].i + 1] = ItemA

\* the continuation of runner w is ready: its call has settled (the guard of
\* RunnerResume)
ResumeReady(w) ==
    /\ batch = "running"
    /\ w \in DOMAIN runner
    /\ runner[w].pc = "busy"
    /\ call[RunnerProc(w)].pc = "settled"

\* runner w waits for an answer that the upstream will give
AnswerReady(w) ==
    /\ batch = "running"
    /\ w \in DOMAIN runner
    /\ runner[w].pc = "busy"
    /\ ~MayHang(w)
    /\ call[RunnerProc(w)].pc \in {"awaitPoints", "awaitForecast"}

OthersProgress ==
    \/ \E w \in 1..BatchLimit : RunnerResume(w)
    \/ \E w \in 1..BatchLimit :
           /\ AnswerReady(w)
           /\ \/ \E res \in BatchPointsResponses : PointsResponse(RunnerProc(w), res)
              \/ \E res \in BatchForecastResponses : ForecastResponse(RunnerProc(w), res)

\* the enabling condition of OthersProgress, as a predicate on the state
OthersReady == \E w \in 1..BatchLimit : ResumeReady(w) \/ AnswerReady(w)

\* the clock stands still: whether an entry has expired changes which calls
\* are sent upstream, not whether the runners go on
HungNext ==
    \/ \E body \in Bodies, lim \in Limits : BatchRequest(body, lim)
    \/ \E p \in RunnerProcs, res \in BatchPointsResponses : PointsResponse(p, res)
    \/ \E p \in RunnerProcs, res \in BatchForecastResponses : ForecastResponse(p, res)
    \/ \E w \in 1..BatchLimit : RunnerResume(w)
    \/ BatchRespond

\* The event loop runs every continuation that is ready (the handler once all
\* runners have returned, a runner whose call has settled), and the upstream
\* answers every call but those of ItemA. The second conjunct of fairness is
\* WF_vars(OthersProgress) with ENABLED <<OthersProgress>>_vars written out
\* as OthersReady.
SpecBatchOneHung ==
    /\ Init
    /\ [][HungNext]_vars
    /\ WF_vars(BatchRespond)
    /\ ([]<>(~OthersReady) \/ []<><<OthersProgress>>_vars)

----------------------------------------------------------------------------
(* Calls that overlap on the two caches: the items of one batch, all taken *)
(* at once, with every kind of upstream answer                            *)

ShareBodies == {Arr(q) : q \in SeqsUpTo({ItemA, ItemB}, MaxOverlap)}

ShareNext ==
    \/ \E body \in ShareBodies : BatchRequest(body, BatchLimit)
    \/ \E p \in RunnerProcs, res \in PointsResponses : PointsResponse(p, res)
    \/ \E p \in RunnerProcs, res \in ForecastResponses : ForecastResponse(p, res)
    \/ \E w \in 1..BatchLimit : RunnerResume(w)
    \/ BatchRespond
    \/ BatchTick

SpecShare == Init /\ [][ShareNext]_vars

----------------------------------------------------------------------------
(* Two batch requests at once. The second invocation of the handler has its *)
(* own locations, idx, results and runners (the locals of lines 99-101) in  *)
(* inv2 and shares the two caches with the first.                           *)

\* a variant with idx declared at module level: the second invocation reads
\* the counter of the first
sharedCursor(I) == idx

\* line 100: idx is a local of the invocation
ownCursor(I) == I.idx

Pool2 ==
    [R |-> Shared, call |-> inv2.call, idx |-> ownCursor(inv2), runner |-> inv2.runner,
     claimed |-> inv2.claimed]

\* the second invocation with the pool B written back, and the caches
ApplyPool2(I, B) ==
    /\ inv2' = [I EXCEPT !.call = B.call, !.idx = B.idx, !.runner = B.runner,
                         !.claimed = B.claimed]
    /\ pointsCache' = B.R.points
    /\ forecastCache' = B.R.forecast

\* lines 192-202 for the second request
Batch2Request(body, lim) ==
    /\ inv2.batch = "idle"
    /\ LET locs == IF body.t = "array" THEN body.a ELSE <<>>
           n == Len(locs)
           I == [inv2 EXCEPT !.locations = locs, !.limit = lim]
       IN  IF n = 0
           THEN /\ inv2' = [I EXCEPT !.batch = "done",
                                     !.response = [status |-> 200, results |-> <<>>]]
                /\ UNCHANGED <<pointsCache, forecastCache>>
           ELSE IF TooMany(n)
           THEN /\ inv2' = [I EXCEPT !.batch = "done",
                                     !.response = [status |-> 413,
                                                   err |-> "Too many locations. Max 50."]]
                /\ UNCHANGED <<pointsCache, forecastCache>>
           ELSE ApplyPool2([I EXCEPT !.batch = "running",
                                     !.results = [i \in 1..n |-> Hole],
                                     !.outcomes = [i \in 1..n |-> Pending]],
                           spawn([Pool2 EXCEPT !.idx = 0,
                                               !.runner = [w \in 1..NumRunners(lim, n) |->
                                                              [pc |-> "new"]]],
                                 1, NumRunners(lim, n), locs, now))
    /\ UNCHANGED <<now, cacheVars, placesVars, listVars, call, hist, log, locations, limit, batch,
                   idx, results, runner, claimed, outcomes, response>>

\* the answer to a request of a call of the second invocation
Points2Response(p, res) ==
    /\ inv2.call[p].pc = "awaitPoints"
    /\ LET out == onPoints(Shared, inv2.call[p], res, now)
       IN  /\ inv2' = [inv2 EXCEPT !.call[p] = out.call]
           /\ pointsCache' = out.R.points
           /\ forecastCache' = out.R.forecast
    /\ UNCHANGED <<now, cacheVars, placesVars, listVars, call, hist, log, locations, limit, batch,
                   idx, results, runner, claimed, outcomes, response>>

Forecast2Response(p, res) ==
    /\ inv2.call[p].pc = "awaitForecast"
    /\ LET out == onForecast(Shared, inv2.call[p], res, now)
       IN  /\ inv2' = [inv2 EXCEPT !.call[p] = out.call]
           /\ pointsCache' = out.R.points
           /\ forecastCache' = out.R.forecast
    /\ UNCHANGED <<now, cacheVars, placesVars, listVars, call, hist, log, locations, limit, batch,
                   idx, results, runner, claimed, outcomes, response>>

\* line 105 after the await, and the next turn of the loop
Runner2Resume(w) ==
    /\ inv2.batch = "running"
    /\ w \in DOMAIN inv2.runner
    /\ inv2.runner[w].pc = "busy"
    /\ inv2.call[RunnerProc(w)].pc = "settled"
    /\ LET i == inv2.runner[w].i
           outcome == inv2.call[RunnerProc(w)].outcome
       IN  ApplyPool2([inv2 EXCEPT
                           !.results = storeResult(@, i,
                                                   workerResult(inv2.locations[i + 1],
                                                                outcome)),
                           !.outcomes[i + 1] = outcome],
                      claimStep([Pool2 EXCEPT !.call[RunnerProc(w)] = IdleCall],
                                w, inv2.locations, now))
    /\ UNCHANGED <<now, cacheVars, placesVars, listVars, call, hist, log, locations, limit, batch,
                   idx, results, runner, claimed, outcomes, response>>

\* lines 108-109 and 226
Batch2Respond ==
    /\ inv2.batch = "running"
    /\ PromiseAll(inv2.runner)
    /\ inv2' = [inv2 EXCEPT !.batch = "done",
                            !.response = [status |-> 200, results |-> inv2.results]]
    /\ UNCHANGED <<now, cacheVars, placesVars, listVars, resolveVars, locations, limit, batch,
                   idx, results, runner, claimed, outcomes, response>>

\* batches of valid items, with fewer runners than items at the longest
TwoBodies == {Arr(q) : q \in SeqsUpTo({ItemA, ItemB}, MaxOverlap) \ {<<>>}}
TwoLimits == 1..(MaxOverlap - 1)

TwoPointsResponses == {HttpOk([forecast |-> Str("U1")])}
TwoForecastResponses == {HttpOk([periods |-> Arr(<<"p1">>)])}

TwoNext ==
    \/ \E body \in TwoBodies, lim \in TwoLimits : BatchRequest(body, lim)
    \/ \E body \in TwoBodies, lim \in TwoLimits : Batch2Request(body, lim)
    \/ \E p \in RunnerProcs, res \in TwoPointsResponses : PointsResponse(p, res)
    \/ \E p \in RunnerProcs, res \in TwoPointsResponses : Points2Response(p, res)
    \/ \E p \in RunnerProcs, res \in TwoForecastResponses : ForecastResponse(p, res)
    \/ \E p \in RunnerProcs, res \in TwoForecastResponses : Forecast2Response(p, res)
    \/ \E w \in 1..BatchLimit : RunnerResume(w)
    \/ \E w \in 1..BatchLimit : Runner2Resume(w)
    \/ BatchRespond
    \/ Batch2Respond

SpecTwoBatches == Init /\ [][TwoNext]_vars

----------------------------------------------------------------------------
(* GET /places: the geocoding lookup behind placesCache *)

\* process.env.API_KEY; the lookup is modelled in a process that has one
API_KEY == Str("key")

\* String.prototype.trim on the texts of the model, whose white space is " "
trim(cs) == TrimRight(TrimLeft(cs))

LowerChar(c) ==
    CASE c = "D" -> "d"
      [] c = "E" -> "e"
      [] OTHER -> c

toLowerCase(cs) == [i \in 1..Len(cs) |-> LowerChar(cs[i])]

\* a variant that keeps the case of the search text in the key
placesKeyCaseSensitive(text) == text

\* line 140
placesKey(text) == toLowerCase(text)

\* lines 153-160: the payload built from the body of the geocoding answer
toPlace(feature) ==
    [name |-> feature.properties.formatted, place_id |-> feature.properties.place_id,
     longitude |-> feature.properties.lon, latitude |-> feature.properties.lat]

placesPayload(data) ==
    LET features == IF Truthy(data.features) THEN data.features.a ELSE <<>>
    IN  [t |-> "object", places |-> [i \in 1..Len(features) |-> toPlace(features[i])]]

NoPlaces == [t |-> "object", places |-> <<>>]

\* what is kept of an answered search: its raw text, its cache key (empty when
\* there was none), when it began and ended, the geocoding calls it sent, the
\* status and the body of the answer, and whether the places-cache holds its
\* key then
SearchEntry(text, key, startedAt, nCalls, status, body, m) ==
    [text |-> text, key |-> key, startedAt |-> startedAt, endedAt |-> now,
     nCalls |-> nCalls, status |-> status, body |-> body, kept |-> key \in DOMAIN m]

\* lines 130-151: the handler up to its await
PlacesRequest(q) ==
    /\ search.pc = "idle"
    /\ LET text == trim(IF Truthy(q) THEN q.chars ELSE <<>>)
           key == placesKey(text)
           cached == cacheGet(placesCache, key, now)
           m == cacheGetMap(placesCache, key, now)
       IN  IF text = <<>>
           THEN /\ searches' = Append(searches,
                                      SearchEntry(q, <<>>, now, 0, 200, NoPlaces, placesCache))
                /\ UNCHANGED <<placesCache, search>>
           ELSE IF ~Truthy(API_KEY)
           THEN /\ searches' = Append(searches,
                                      SearchEntry(q, <<>>, now, 0, 500,
                                                  Err(<<"Missing API_KEY for Geoapify">>, 0),
                                                  placesCache))
                /\ UNCHANGED <<placesCache, search>>
           ELSE /\ placesCache' = m
                /\ IF Truthy(cached)
                   THEN /\ searches' = Append(searches,
                                              SearchEntry(q, key, now, 0, 200, cached, m))
                        /\ search' = search
                   ELSE /\ search' = [pc |-> "awaitGeocode", text |-> q, key |-> key,
                                      startedAt |-> now]
                        /\ searches' = searches
    /\ UNCHANGED <<now, cacheVars, listVars, resolveVars, batchVars>>

\* lines 151-168, from the answer of the geocoding request on
PlacesResponse(res) ==
    /\ search.pc = "awaitGeocode"
    /\ LET got == fetchJson(res)
       IN  IF got.threw
           THEN /\ searches' =
                       Append(searches,
                              SearchEntry(search.text, search.key, search.startedAt, 1,
                                          IF got.err.status # 0 THEN got.err.status ELSE 500,
                                          got.err, placesCache))
                /\ placesCache' = placesCache
           ELSE LET payload == placesPayload(got.data)
                    m == cacheSet(placesCache, search.key, payload, TTL_places, now)
                IN  /\ placesCache' = m
                    /\ searches' =
                           Append(searches,
                                  SearchEntry(search.text, search.key, search.startedAt, 1,
                                              200, payload, m))
    /\ search' = [pc |-> "idle"]
    /\ UNCHANGED <<now, cacheVars, listVars, resolveVars, batchVars>>

PlacesTimes == {0, 1, TTL_places - 1, TTL_places}

PlacesTick ==
    /\ Advance(PlacesTimes)
    /\ UNCHANGED <<cacheVars, placesVars, listVars, resolveVars, batchVars>>

\* req.query.search: absent, empty, blank, and texts that differ in case and
\* in the white space around them
SearchTexts ==
    {Undefined, Chars(<<>>), Chars(<<" ">>), Chars(<<"D", "e">>), Chars(<<"d", "e">>),
     Chars(<<" ", "d", "E", " ">>), Chars(<<"x">>)}

Feature1 ==
    [properties |-> [formatted |-> "Denver, CO", place_id |-> "p1",
                     lon |-> Fin(TRUE, 104, 99000000), lat |-> Fin(FALSE, 39, 74000000)]]

GeocodeResponses ==
    {HttpOk([features |-> Arr(<<Feature1>>)]), HttpOk([features |-> Arr(<<>>)]),
     HttpOk([features |-> Undefined]), HttpFail(503), Rejected}

PlacesNext ==
    \/ \E q \in SearchTexts : Len(searches) < MaxCalls /\ PlacesRequest(q)
    \/ \E res \in GeocodeResponses : PlacesResponse(res)
    \/ PlacesTick

SpecPlaces == Init /\ [][PlacesNext]_vars

SpecLists == Init /\ [][ListNext]_vars

----------------------------------------------------------------------------
(* One request, with every kind of input and of upstream answer *)

RawPool ==
    {Undefined, Null, Chars(<<>>), Chars(<<" ">>), Chars(<<"a", "b", "c">>),
     Chars(<<"1", "2", "a">>), Chars(<<"I", "n", "f", "i", "n", "i", "t", "y">>),
     Chars(<<"-", "I", "n", "f", "i", "n", "i", "t", "y">>), Inf(FALSE),
     Fin(FALSE, 34, 5000000), LatA1, LonA1}

InputNext ==
    \/ \E p \in Clients, lat \in RawPool, lon \in RawPool :
           Len(log) < 1 /\ Request(p, lat, lon)
    \/ \E p \in Clients, res \in AllPointsResponses : PointsResponse(p, res)
    \/ \E p \in Clients, res \in AllForecastResponses : ForecastResponse(p, res)
    \/ ResolveTick

SpecInput == Init /\ [][InputNext]_vars

----------------------------------------------------------------------------
(* Requests around latitude 0, where toFixed prints a sign for -0.00001 *)

LatZp == C_(<<"0", ".", "0", "0", "0", "0", "1">>)
LatZm == C_(<<"-", "0", ".", "0", "0", "0", "0", "1">>)

KeyPool == {<<LatA1, LonA1>>, <<LatA2, LonA2>>, <<LatZp, LonA1>>, <<LatZm, LonA1>>}

KeyNext ==
    \/ \E p \in Clients, xy \in KeyPool : Len(log) < MaxCalls /\ Request(p, xy[1], xy[2])
    \/ \E p \in Clients, res \in PointsResponses : PointsResponse(p, res)
    \/ \E p \in Clients, res \in {HttpOk([periods |-> Arr(<<"p1">>)])} :
           ForecastResponse(p, res)
    \/ ResolveTick

SpecKey == Init /\ [][KeyNext]_vars

----------------------------------------------------------------------------
(* One GET /weather request beside one batch, on the same caches *)

ServePointsResponses == {HttpOk([forecast |-> Str("U1")]), HttpFail(503)}
ServeForecastResponses == {HttpOk([periods |-> Arr(<<"p1">>)]), HttpFail(503)}

\* batches of a valid and an invalid item, run with the limit the route passes
ServeBodies == {Arr(q) : q \in SeqsUpTo({ItemB, ItemBad}, MaxItems)}

\* what the one request carries: a valid pair, or an empty lat
ServeCoords == {<<LatB, LonB>>, <<Chars(<<>>), LonB>>}

ServeNext ==
    \/ \E p \in Clients, xy \in ServeCoords :
           Len(log) = 0 /\ Request(p, xy[1], xy[2])
    \/ \E body \in ServeBodies : BatchRequest(body, BatchLimit)
    \/ \E p \in Procs, res \in ServePointsResponses : PointsResponse(p, res)
    \/ \E p \in Procs, res \in ServeForecastResponses : ForecastResponse(p, res)
    \/ \E w \in 1..BatchLimit : RunnerResume(w)
    \/ BatchRespond

SpecServe == Init /\ [][ServeNext]_vars

\* The event loop runs every continuation that is ready: a runner whose call
\* has settled resumes, and the handler answers once Promise.all has settled.
\* Nothing makes the upstream answer: fetch is called without a signal or a
\* timeout (lines 47, 72-75, 90), so the steps PointsResponse and
\* ForecastResponse carry no fairness.
\* The fairness of the runners is WF_vars(\E w : RunnerResume(w)) with its
\* enabling condition written out as ResumeReady.
SpecServeFair ==
    /\ Init
    /\ [][ServeNext]_vars
    /\ WF_vars(BatchRespond)
    /\ \/ []<>(~\E w \in 1..BatchLimit : ResumeReady(w))
       \/ []<><<\E w \in 1..BatchLimit : RunnerResume(w)>>_vars

----------------------------------------------------------------------------
(* Claims on the TTL cache *)

\* C1: cacheGet never returns the value of an entry with now >= expiresAt: it
\* returns null and the entry is gone from the Map afterwards.
C1_ExpiredEntryIsAbsent ==
    (lastGet.done /\ lastGet.had /\ lastGet.at >= lastGet.expiresAt)
        => (lastGet.returned = Null /\ ~lastGet.kept)

\* a cacheGet at the very instant its entry expires
C1_Witness == lastGet.done /\ lastGet.had /\ lastGet.at = lastGet.expiresAt

\* the last cacheGet is the first read of the key last written
FirstReadOfLastSet ==
    lastSet.done /\ lastSet.reads = "one" /\ lastGet.done /\ lastGet.key = lastSet.key

\* C11: an entry written with ttl 0 is absent on the very next cacheGet of
\* its key, whether or not the clock has moved in between.
C11_ZeroTtlAbsentOnNextRead ==
    (FirstReadOfLastSet /\ lastSet.ttlMs = 0)
        => (lastGet.had /\ lastGet.returned = Null /\ ~lastGet.kept)

\* written with ttl 0 and read before the clock has moved
C11_Witness ==
    FirstReadOfLastSet /\ lastSet.ttlMs = 0 /\ lastGet.at = lastSet.at /\ lastGet.had

\* C28: until its key is written again, an entry is the value and the expiry
\* (time of the write + ttl) of the last cacheSet of its key, whatever the Map
\* held before; and every cacheGet of that key before that expiry returns that
\* value and leaves the entry in the Map.
C28_LiveEntryReturned ==
    /\ (lastSet.done /\ lastSet.reads = "none")
           => /\ lastSet.key \in DOMAIN map
              /\ map[lastSet.key] = Entry(lastSet.value, lastSet.at + lastSet.ttlMs)
    /\ (/\ lastSet.done /\ lastSet.reads # "none"
        /\ lastGet.done /\ lastGet.key = lastSet.key
        /\ lastGet.at < lastSet.at + lastSet.ttlMs)
           => /\ lastGet.had
              /\ lastGet.expiresAt = lastSet.at + lastSet.ttlMs
              /\ lastGet.returned = lastSet.value
              /\ lastGet.kept
              /\ map[lastSet.key] = Entry(lastSet.value, lastSet.at + lastSet.ttlMs)

\* a key written at a later time with ttl 2 has been read twice, the second
\* time one instant before its expiry
C28_Witness ==
    /\ lastSet.done /\ lastSet.at > 0 /\ lastSet.ttlMs = 2 /\ lastSet.reads = "more"
    /\ lastGet.done /\ lastGet.key = lastSet.key
    /\ lastGet.at = lastSet.at + 1
    /\ lastGet.returned = lastSet.value

----------------------------------------------------------------------------
(* Claims on sequences of getForecastForLatLon calls *)

SamePair(a, b) == a.lat = b.lat /\ a.lon = b.lon

\* both calls lie inside one forecast TTL, counted from the start of the first
InForecastWindow(a, b) == b.endedAt < a.startedAt + TTL_forecast

Consecutive == {i \in 1..Len(log) : i + 1 <= Len(log)}

\* C2 as stated: two calls for the same (lat, lon), one after the other inside
\* the forecast TTL, send at most one forecast request between them.
C2_AtMostOneFetch ==
    \A i \in Consecutive :
        (SamePair(log[i], log[i + 1]) /\ InForecastWindow(log[i], log[i + 1]))
            => log[i].nForecast + log[i + 1].nForecast <= 1

\* C2 amended: the same, when the first call returned a forecast and the second
\* call used the same forecast URL.
C2_AtMostOneFetchAfterSuccess ==
    \A i \in Consecutive :
        (/\ SamePair(log[i], log[i + 1])
         /\ InForecastWindow(log[i], log[i + 1])
         /\ log[i].outcome.t = "returned"
         /\ log[i + 1].forecastUrl = log[i].forecastUrl)
            => log[i].nForecast + log[i + 1].nForecast <= 1

\* the first call fetched the forecast, the second was served from the cache
C2_Witness ==
    \E i \in Consecutive :
        /\ SamePair(log[i], log[i + 1])
        /\ InForecastWindow(log[i], log[i + 1])
        /\ log[i].outcome.t = "returned" /\ log[i].nForecast = 1
        /\ log[i + 1].outcome.t = "returned" /\ log[i + 1].nForecast = 0

EndpointFailed(e) == e.outcome.t = "threw" /\ e.outcome.at = "points"

\* j is the first call after i with the coordinate key of i
NextWithKey(i, j) ==
    /\ i < j
    /\ log[j].coordKey = log[i].coordKey
    /\ \A k \in (i + 1)..(j - 1) : log[k].coordKey # log[i].coordKey

\* C3: after a call whose endpoint resolution failed, the points-cache holds no
\* entry for its key, and the next call for that key sends the points request.
C3_FailureNotCached ==
    \A i \in 1..Len(log) :
        EndpointFailed(log[i])
            => /\ ~log[i].pointsKept
               /\ \A j \in 1..Len(log) : NextWithKey(i, j) => log[j].nPoints = 1

\* both kinds of failure have been followed by a retry for the same key
C3_Witness ==
    \E i \in 1..Len(log), j \in 1..Len(log) :
        /\ EndpointFailed(log[i])
        /\ log[i].outcome.err.status = 502
        /\ NextWithKey(i, j)
        /\ log[j].nPoints = 1

\* the calls of the clients, settled or still running, with their history
Calls ==
    {log[i] : i \in 1..Len(log)}
        \cup {[nPoints |-> hist[p].nPoints, nForecast |-> hist[p].nForecast,
                pointsLookup |-> hist[p].pointsLookup,
                forecastLookup |-> hist[p].forecastLookup,
                outcome |-> Pending] : p \in {q \in Clients : call[q].pc # "idle"}}

\* C12: a call that finds the points entry of its coordinate alive and the
\* forecast entry of that endpoint expired sends no points request and
\* exactly one forecast request.
C12_ExpiredForecastKeepsEndpoint ==
    \A e \in Calls :
        (e.pointsLookup = "hit" /\ e.forecastLookup = "expired")
            => (e.nPoints = 0 /\ e.nForecast = 1)

\* such a call has returned the forecast it fetched
C12_Witness ==
    \E i \in 1..Len(log) :
        /\ log[i].pointsLookup = "hit"
        /\ log[i].forecastLookup = "expired"
        /\ log[i].outcome.t = "returned"
        /\ log[i].startedAt >= TTL_forecast
        /\ log[i].startedAt < TTL_points

Missed(lookup) == lookup \in {"miss", "expired"}

\* C13: a call sends the points request only after its points-cache lookup
\* missed and the forecast request only after its forecast-cache lookup
\* missed; a call whose two lookups hit returns the cached periods at once
\* and sends nothing.
C13_UpstreamOnlyAfterMiss ==
    \A e \in Calls :
        /\ e.nPoints > 0 => Missed(e.pointsLookup)
        /\ e.nForecast > 0 => Missed(e.forecastLookup)
        /\ (e.pointsLookup = "hit" /\ e.forecastLookup = "hit")
               => /\ e.outcome.t = "returned"
                  /\ e.nPoints = 0 /\ e.nForecast = 0
                  /\ e.endedAt = e.startedAt
                  /\ e.forecastKept # Null
                  /\ e.outcome.periods = e.forecastKept.value

\* a call served from both caches
C13_Witness ==
    \E i \in 1..Len(log) :
        /\ log[i].pointsLookup = "hit" /\ log[i].forecastLookup = "hit"
        /\ log[i].outcome.t = "returned"

\* a successful forecast response whose body has no periods
NoPeriods == HttpOk([periods |-> Undefined])

\* C14: when the forecast request is answered successfully without periods,
\* the call returns the empty array (status 200), and the empty array is
\* written to the forecast-cache under the forecast URL with the forecast TTL.
C14_MissingPeriodsIsEmpty ==
    [][\A p \in Clients :
           ForecastResponse(p, NoPeriods)
               => /\ Len(log') = Len(log) + 1
                  /\ log'[Len(log')].outcome = Returned(Arr(<<>>))
                  /\ log'[Len(log')].status = 200
                  /\ call[p].forecastUrl \in DOMAIN forecastCache'
                  /\ forecastCache'[call[p].forecastUrl]
                         = Entry(Arr(<<>>), now + TTL_forecast)]_vars

\* a call has fetched a forecast without periods and returned the empty
\* array, which the forecast-cache holds
C14_Witness ==
    \E i \in 1..Len(log) :
        /\ log[i].nForecast = 1
        /\ log[i].outcome = Returned(Arr(<<>>))
        /\ log[i].forecastKept = Entry(Arr(<<>>), log[i].endedAt + TTL_forecast)

\* the last settled call resolved its endpoint and failed at the forecast
LastFailedAtForecast ==
    /\ Len(log) > 0
    /\ log[Len(log)].nPoints = 1
    /\ log[Len(log)].outcome.t = "threw"
    /\ log[Len(log)].outcome.at = "forecast"

\* C22: a points answer with a forecast URL writes the entry of the call's
\* key with expiry now + TTL_points; a forecast answer that fails, in a call
\* that resolved its endpoint, leaves both caches as they are, with that entry
\* in the points-cache and no entry for the URL in the forecast-cache; the
\* next call, for the same key while that entry is alive, sends the forecast
\* request and no points request.
C22_EndpointKeptOnForecastFailure ==
    /\ [][\A p \in Clients, res \in PointsResponses :
              (PointsResponse(p, res) /\ ~fetchJson(res).threw
                   /\ Truthy(fetchJson(res).data.forecast))
                  => /\ call[p].coordKey \in DOMAIN pointsCache'
                     /\ pointsCache'[call[p].coordKey]
                            = Entry(fetchJson(res).data.forecast, now + TTL_points)]_vars
    /\ [][\A p \in Clients, res \in ForecastResponses :
              (ForecastResponse(p, res) /\ fetchJson(res).threw /\ hist[p].nPoints = 1)
                  => /\ pointsCache' = pointsCache
                     /\ forecastCache' = forecastCache
                     /\ call[p].coordKey \in DOMAIN pointsCache
                     /\ pointsCache[call[p].coordKey].value = call[p].forecastUrl
                     /\ call[p].forecastUrl \notin DOMAIN forecastCache
                     /\ log'[Len(log')].outcome = Threw(fetchJson(res).err, "forecast")]_vars
    /\ [][\A p \in Clients, xy \in CoordPool :
              (/\ Request(p, xy[1], xy[2])
               /\ LastFailedAtForecast
               /\ log[Len(log)].coordKey = coordKeyOf(toNum(xy[1]), toNum(xy[2]))
               /\ log[Len(log)].coordKey \in DOMAIN pointsCache
               /\ now < pointsCache[log[Len(log)].coordKey].expiresAt)
                  => /\ call'[p].pc = "awaitForecast"
                     /\ call'[p].forecastUrl = log[Len(log)].forecastUrl
                     /\ hist'[p].nPoints = 0
                     /\ hist'[p].nForecast = 1]_vars

\* the retry, begun just before the points entry expires, has fetched the
\* forecast without a points request
C22_Witness ==
    /\ Len(log) = 2
    /\ log[1].nPoints = 1 /\ log[1].outcome.t = "threw" /\ log[1].outcome.at = "forecast"
    /\ log[1].endedAt = 0
    /\ log[2].coordKey = log[1].coordKey
    /\ log[2].startedAt = TTL_points - 1
    /\ log[2].nPoints = 0 /\ log[2].nForecast = 1
    /\ log[2].outcome.t = "returned"

\* a call of a client has just settled
JustSettled == Len(log') = Len(log) + 1

\* m holds for key the value v with the expiry at
Maps(m, key, v, at) == key \in DOMAIN m /\ m[key] = Entry(v, at)

\* m holds for key the value v, written between the instants t0 and t1 with
\* the time to live ttlMs
Wrote(m, key, v, ttlMs, t0, t1) ==
    /\ key \in DOMAIN m
    /\ m[key].value = v
    /\ m[key].expiresAt \in (t0 + ttlMs)..(t1 + ttlMs)

\* C23 as stated: when a call that sent a request returns, the points-cache
\* maps its key to its forecast URL and the forecast-cache maps that URL to
\* the returned periods, both written during the call, with TTL_points and
\* TTL_forecast.
C23_BothEntriesFresh ==
    [][(/\ JustSettled
        /\ log'[Len(log')].outcome.t = "returned"
        /\ log'[Len(log')].nPoints + log'[Len(log')].nForecast >= 1)
           => /\ Wrote(pointsCache', log'[Len(log')].coordKey,
                       log'[Len(log')].forecastUrl, TTL_points,
                       log'[Len(log')].startedAt, now)
              /\ Wrote(forecastCache', log'[Len(log')].forecastUrl,
                       log'[Len(log')].outcome.periods, TTL_forecast,
                       log'[Len(log')].startedAt, now)]_vars

\* C23 amended: each cache that the call missed is written when the answer
\* arrives. A points answer with a forecast URL writes the entry of the key
\* with expiry now + TTL_points; a successful forecast answer writes the
\* returned periods under the forecast URL with expiry now + TTL_forecast, and
\* the points entry written earlier in the call is still there, with an expiry
\* between the call's start and now, plus TTL_points.
C23_MissedCacheWritten ==
    /\ [][\A p \in Clients, res \in PointsResponses :
              (PointsResponse(p, res) /\ ~fetchJson(res).threw
                   /\ Truthy(fetchJson(res).data.forecast))
                  => /\ Maps(pointsCache', call[p].coordKey,
                             fetchJson(res).data.forecast, now + TTL_points)
                     /\ JustSettled =>
                            /\ log'[Len(log')].outcome.t = "returned"
                            /\ log'[Len(log')].nForecast = 0
                            /\ log'[Len(log')].forecastKept # Null
                            /\ log'[Len(log')].forecastKept.value
                                   = log'[Len(log')].outcome.periods]_vars
    /\ [][\A p \in Clients, res \in ForecastResponses :
              (ForecastResponse(p, res) /\ ~fetchJson(res).threw)
                  => LET periods == Coalesce(fetchJson(res).data.periods, Arr(<<>>))
                     IN  /\ Maps(forecastCache', call[p].forecastUrl, periods,
                                 now + TTL_forecast)
                         /\ JustSettled
                         /\ log'[Len(log')].outcome = Returned(periods)
                         /\ hist[p].nPoints = 1 =>
                                Wrote(pointsCache', call[p].coordKey, call[p].forecastUrl,
                                      TTL_points, hist[p].startedAt, now)]_vars

\* a call that missed both caches has returned the periods it fetched, some
\* time after it began
C23_Witness ==
    \E i \in 1..Len(log) :
        /\ log[i].nPoints = 1 /\ log[i].nForecast = 1
        /\ log[i].outcome = Returned(Arr(<<"p1">>))
        /\ log[i].endedAt > log[i].startedAt
        /\ log[i].pointsKept
        /\ log[i].forecastKept = Entry(Arr(<<"p1">>), log[i].endedAt + TTL_forecast)

\* the entry of key in m is new or not what it was
Written(m0, m1, key) == key \in DOMAIN m1 /\ (key \notin DOMAIN m0 \/ m1[key] # m0[key])

\* the answers to a points request after which line 84 is reached
GoodPoints == {res \in PointsResponses :
                  ~fetchJson(res).threw /\ Truthy(fetchJson(res).data.forecast)}

GoodForecasts == {res \in ForecastResponses : ~fetchJson(res).threw}

\* C24: with calls that overlap in any order, every points entry holds a
\* truthy forecast URL and every forecast entry an array of periods; an entry
\* of the points-cache is written only by the step of a successful points
\* answer, for the key of that call, with the URL of the answer; an entry of
\* the forecast-cache only by the step of a successful forecast answer, under
\* the URL of that call, with the periods of the answer; an entry is removed
\* only when it has expired; the step of a failed answer leaves both caches
\* as they are.
C24_EntriesComeFromSuccess ==
    /\ [](/\ \A k \in DOMAIN pointsCache : pointsCache[k].value \in Urls
          /\ \A u \in DOMAIN forecastCache :
                 /\ u \in Urls
                 /\ forecastCache[u].value \in {Arr(<<"p1">>), Arr(<<>>)})
    /\ [][\A k \in DOMAIN pointsCache' :
              Written(pointsCache, pointsCache', k)
                  => \E p \in RunnerProcs, res \in GoodPoints :
                         /\ PointsResponse(p, res)
                         /\ call[p].coordKey = k
                         /\ pointsCache'[k]
                                = Entry(fetchJson(res).data.forecast, now + TTL_points)]_vars
    /\ [][\A u \in DOMAIN forecastCache' :
              Written(forecastCache, forecastCache', u)
                  => \E p \in RunnerProcs, res \in GoodForecasts :
                         /\ ForecastResponse(p, res)
                         /\ call[p].forecastUrl = u
                         /\ forecastCache'[u]
                                = Entry(Coalesce(fetchJson(res).data.periods, Arr(<<>>)),
                                        now + TTL_forecast)]_vars
    /\ [][/\ \A k \in DOMAIN pointsCache \ DOMAIN pointsCache' :
                 Expired(pointsCache[k], now)
          /\ \A u \in DOMAIN forecastCache \ DOMAIN forecastCache' :
                 Expired(forecastCache[u], now)]_vars
    /\ [][\A p \in RunnerProcs :
              \/ \E res \in PointsResponses \ GoodPoints : PointsResponse(p, res)
              \/ \E res \in ForecastResponses \ GoodForecasts : ForecastResponse(p, res)
              => pointsCache' = pointsCache /\ forecastCache' = forecastCache]_vars

\* two calls for one coordinate overlapped; the points request of one failed
\* and the other wrote both caches
C24_Witness ==
    /\ batch = "done"
    /\ Len(locations) >= 2
    /\ locations[1] = locations[2]
    /\ outcomes[1].t = "threw" /\ outcomes[1].at = "points"
    /\ outcomes[2].t = "returned"
    /\ DOMAIN pointsCache # {}
    /\ DOMAIN forecastCache # {}

\* the batch asks for one coordinate in every item
SameCoordinate ==
    /\ Len(locations) >= 2
    /\ \A i \in 1..Len(locations) : locations[i] = locations[1]

KeyOfItem(loc) == coordKeyOf(toNum(locLat(loc)), toNum(locLon(loc)))

\* C25: calls for one coordinate that overlap on a cold cache. A call sends
\* each request at most once (from the points answer it goes on to the
\* forecast or settles, from the forecast answer it settles); a call whose
\* answer is successful goes on or returns, whatever the other calls have
\* done meanwhile, and returns the periods of its own forecast answer; when
\* every call has returned, the points-cache holds the one key with the URL
\* of a points answer and the forecast-cache holds an entry for that URL.
C25_DuplicatesTolerated ==
    /\ [][\A p \in RunnerProcs :
              /\ (call[p].pc = "awaitPoints" /\ call'[p] # call[p])
                     => /\ call'[p].pc \in {"awaitForecast", "settled"}
                        /\ \E res \in PointsResponses : PointsResponse(p, res)
              /\ (call[p].pc = "awaitForecast" /\ call'[p] # call[p])
                     => /\ call'[p].pc = "settled"
                        /\ \E res \in ForecastResponses : ForecastResponse(p, res)
              /\ \A res \in GoodPoints :
                     PointsResponse(p, res)
                         => \/ call'[p].pc = "awaitForecast"
                            \/ call'[p].pc = "settled" /\ call'[p].outcome.t = "returned"
              /\ \A res \in GoodForecasts :
                     ForecastResponse(p, res)
                         => /\ call'[p].pc = "settled"
                            /\ call'[p].outcome
                                   = Returned(Coalesce(fetchJson(res).data.periods,
                                                       Arr(<<>>)))]_vars
    /\ []((/\ SameCoordinate
           /\ batch = "done"
           /\ \A i \in 1..Len(outcomes) : outcomes[i].t = "returned")
              => /\ DOMAIN pointsCache = {KeyOfItem(locations[1])}
                 /\ pointsCache[KeyOfItem(locations[1])].value \in Urls
                 /\ pointsCache[KeyOfItem(locations[1])].value \in DOMAIN forecastCache
                 /\ \A i \in 1..Len(results) :
                        /\ results[i].forecast = outcomes[i].periods
                        /\ "error" \notin DOMAIN results[i])

\* two calls for one coordinate have both returned, each after its own
\* points request, answered with different URLs, and its own forecast request
C25_Witness ==
    /\ SameCoordinate
    /\ batch = "done"
    /\ \A i \in 1..Len(outcomes) : outcomes[i].t = "returned"
    /\ DOMAIN forecastCache = Urls

----------------------------------------------------------------------------
(* Claims on GET /places *)

\* the trimmed, lower-cased text of a search
Normal(q) == toLowerCase(trim(IF Truthy(q) THEN q.chars ELSE <<>>))

\* searches i and i + 1 ask for the same text, the second one ending within
\* the places TTL of the start of the first
SameSearchInWindow(i) ==
    /\ i + 1 <= Len(searches)
    /\ Normal(searches[i].text) = Normal(searches[i + 1].text)
    /\ searches[i + 1].endedAt < searches[i].startedAt + TTL_places

\* a failed geocoding call writes nothing, and an empty search text is
\* answered 200 with an empty list and without a geocoding call
FailureAndEmptySearch ==
    /\ [][\A res \in GeocodeResponses :
              (PlacesResponse(res) /\ fetchJson(res).threw)
                  => /\ placesCache' = placesCache
                     /\ searches'[Len(searches')].status # 200
                     /\ ~searches'[Len(searches')].kept]_vars
    /\ [](\A i \in 1..Len(searches) :
              Normal(searches[i].text) = <<>>
                  => /\ searches[i].status = 200
                     /\ searches[i].body = NoPlaces
                     /\ searches[i].nCalls = 0
                     /\ searches[i].endedAt = searches[i].startedAt)

\* C29 as stated: two searches for the same text, one after the other within
\* the places TTL, send at most one geocoding call between them.
C29_AtMostOneGeocode ==
    /\ [](\A i \in 1..Len(searches) :
              SameSearchInWindow(i) => searches[i].nCalls + searches[i + 1].nCalls <= 1)
    /\ FailureAndEmptySearch

\* C29 amended: the same, when the first search was answered 200; and when
\* the first search sent the geocoding call itself, the second is answered
\* from the cache with the payload of the first. (A search answered from the
\* cache leaves the expiry of the entry as it was.)
C29_AtMostOneGeocodeAfterSuccess ==
    /\ [](\A i \in 1..Len(searches) :
              (SameSearchInWindow(i) /\ searches[i].status = 200)
                  => /\ searches[i].nCalls + searches[i + 1].nCalls <= 1
                     /\ searches[i].nCalls = 1
                            => /\ searches[i + 1].nCalls = 0
                               /\ searches[i + 1].status = 200
                               /\ searches[i + 1].body = searches[i].body)
    /\ FailureAndEmptySearch

\* "De" was looked up and " dE " was answered from the cache just before the
\* entry expired
C29_Witness ==
    /\ Len(searches) = 2
    /\ searches[1].text = Chars(<<"D", "e">>)
    /\ searches[1].nCalls = 1 /\ searches[1].status = 200
    /\ searches[2].text = Chars(<<" ", "d", "E", " ">>)
    /\ searches[2].startedAt = TTL_places - 1
    /\ searches[2].nCalls = 0 /\ searches[2].status = 200
    /\ searches[2].body = searches[1].body

\* the coordinate key of an entry: the one of its Location document
EntryKey(e) ==
    IF e.location \in DOMAIN locationDocs
    THEN coordKeyFrom(locationDocs[e.location].longitude, locationDocs[e.location].latitude)
    ELSE Null

\* no two entries of the stored list with the same location id or the same
\* coordinate key
NoDuplicateEntries ==
    \A i, j \in 1..Len(list) :
        i # j => /\ list[i].location # list[j].location
                 /\ EntryKey(list[i]) = Null \/ EntryKey(list[i]) # EntryKey(list[j])

\* a request answered 409 leaves the stored list as it is
RefusalChangesNothing ==
    [][(Len(answered') > Len(answered) /\ answered'[Len(answered')].status = 409)
           => list' = list]_vars

\* C30: after any sequence of add-location requests, overlapping ones
\* included, the list holds no two entries with the same location id or the
\* same coordinate key; a request that would make such a duplicate is refused
\* with 409 and leaves the list unchanged.
C30_NoDuplicatesEver == NoDuplicateEntries

\* the case the handler does cover: as long as no request has begun while
\* another was in progress, the list holds no duplicate
C30_NoDuplicatesInSequence ==
    (/\ \A k \in 1..Len(answered) : answered[k].alone
     /\ \A s \in AddsInFlight : adds[s].alone)
        => NoDuplicateEntries

\* two requests in sequence for locations with one coordinate key: the first
\* was answered 201 and the second 409
C30_SequenceWitness ==
    /\ Len(answered) >= 2
    /\ answered[1].alone /\ answered[2].alone
    /\ answered[1].status = 201
    /\ answered[2].status = 409
    /\ answered[1].body # answered[2].body
    /\ Len(list) = 1

----------------------------------------------------------------------------
(* Claims on the input and on the coordinate key *)

\* v parses to a finite number
ParsesFinite(v) == ~IsNullish(v) /\ v # Chars(<<>>) /\ IsFinite(Number(v))

\* C9: a lat or lon that does not parse to a finite number is rejected with
\* status 400, before anything else is done.
C9_NonFiniteRejected ==
    \A i \in 1..Len(log) :
        ~(ParsesFinite(log[i].lat) /\ ParsesFinite(log[i].lon))
            => /\ log[i].outcome.t = "threw"
               /\ log[i].outcome.at = "input"
               /\ log[i].status = 400

\* the number a toFixed(4) text stands for, in units of 10^-4
TextValue(txt) == IF txt.neg THEN 0 - txt.n ELSE txt.n

SameRounded(a, b) ==
    /\ TextValue(roundCoord(toNum(a.lat))) = TextValue(roundCoord(toNum(b.lat)))
    /\ TextValue(roundCoord(toNum(a.lon))) = TextValue(roundCoord(toNum(b.lon)))

\* C10: two pairs that round to the same 4-decimal values have the same key,
\* and a call for the second, begun within the points TTL of a call for the
\* first that resolved the endpoint, sends no points request.
C10_SameRoundedSameKey ==
    \A i \in 1..Len(log), j \in 1..Len(log) :
        (/\ i < j
         /\ SameRounded(log[i], log[j])
         /\ log[i].forecastUrl # Null
         /\ log[j].startedAt < log[i].startedAt + TTL_points)
            => (log[j].coordKey = log[i].coordKey /\ log[j].nPoints = 0)

----------------------------------------------------------------------------
(* Claims on failures, for one request and for a batch *)

\* the upstream answers on which fetchJson throws
FailedResponses == {res \in ServePointsResponses \cup ServeForecastResponses :
                       fetchJson(res).threw}

\* the error err has reached the caller of p's call: the route has answered
\* with it, or the worker of the runner finds the call rejected with it
Surfaced(p, err) ==
    IF p \in Clients
    THEN /\ Len(log') = Len(log) + 1
         /\ log'[Len(log')].outcome.t = "threw"
         /\ log'[Len(log')].outcome.err = err
         /\ log'[Len(log')].status = (IF err.status # 0 THEN err.status ELSE 500)
    ELSE /\ call'[p].pc = "settled"
         /\ call'[p].outcome.t = "threw"
         /\ call'[p].outcome.err = err

\* C15: a call sends each request at most once; a call that waits for the
\* points answer goes on to the forecast or settles, one that waits for the
\* forecast answer settles; a failed answer settles the call with that error
\* in the same step, and the worker of a batch puts the message of a rejected
\* call into the error field of its item.
C15_NoRetries ==
    /\ [](\A e \in Calls : e.nPoints <= 1 /\ e.nForecast <= 1)
    /\ [][\A p \in Procs :
              /\ (call[p].pc = "awaitPoints" /\ call'[p] # call[p])
                     => call'[p].pc \in {"awaitForecast", "settled", "idle"}
              /\ (call[p].pc = "awaitForecast" /\ call'[p] # call[p])
                     => call'[p].pc \in {"settled", "idle"}
              /\ \A res \in FailedResponses :
                     (PointsResponse(p, res) \/ ForecastResponse(p, res))
                         => Surfaced(p, fetchJson(res).err)]_vars
    /\ [][\A w \in 1..BatchLimit :
              (RunnerResume(w) /\ call[RunnerProc(w)].outcome.t = "threw")
                  => LET r == results'[runner[w].i + 1]
                     IN  /\ r.forecast = Null
                         /\ r.error = call[RunnerProc(w)].outcome.err.message]_vars

\* a request has failed at its points request and was answered with the
\* upstream status, and a batch was answered with an item whose upstream
\* request failed
C15_Witness ==
    /\ Len(log) = 1
    /\ log[1].outcome.t = "threw" /\ log[1].outcome.at = "points"
    /\ log[1].nPoints = 1 /\ log[1].nForecast = 0 /\ log[1].status = 503
    /\ batch = "done"
    /\ \E i \in 1..Len(outcomes) :
           /\ outcomes[i].t = "threw"
           /\ outcomes[i].at \in {"points", "forecast"}
           /\ response.results[i].error = outcomes[i].err.message

\* the error of lines 62-64
InvalidInput == Threw(Err(<<"lat and lon must be valid numbers">>, 400), "input")

\* the coordinates of an item fail the test of line 61
InvalidItem(loc) == InvalidCoord(toNum(locLat(loc)), toNum(locLon(loc)))

\* runner w has just taken an index
Took(w) == w \in DOMAIN runner' /\ runner'[w].pc = "busy"
               /\ (w \notin DOMAIN runner \/ runner[w] # runner'[w])

\* C21: a call whose lat or lon fails the test of line 61 settles in the step
\* that begins it, with the 400 error, without a request sent and with both
\* caches as they were; in a batch the call of such an item settles when its
\* runner takes the index, never waits for an upstream answer, and the item's
\* result carries forecast null and the error message.
C21_InvalidInputFailsFast ==
    /\ [][\A p \in Clients, xy \in ServeCoords :
              (Request(p, xy[1], xy[2]) /\ InvalidCoord(toNum(xy[1]), toNum(xy[2])))
                  => /\ Len(log') = Len(log) + 1
                     /\ log'[Len(log')].outcome = InvalidInput
                     /\ log'[Len(log')].status = 400
                     /\ log'[Len(log')].nPoints = 0
                     /\ log'[Len(log')].nForecast = 0
                     /\ pointsCache' = pointsCache
                     /\ forecastCache' = forecastCache]_vars
    /\ [][\A w \in 1..BatchLimit :
              (Took(w) /\ InvalidItem(locations'[runner'[w].i + 1]))
                  => /\ call'[RunnerProc(w)].pc = "settled"
                     /\ call'[RunnerProc(w)].outcome = InvalidInput
                     /\ (RunnerResume(w) =>
                             /\ pointsCache' = pointsCache
                             /\ forecastCache' = forecastCache)]_vars
    /\ [](\A i \in 1..Len(outcomes) :
              (outcomes[i] = InvalidInput /\ results[i] # Hole)
                  => /\ results[i].forecast = Null
                     /\ results[i].error = <<"lat and lon must be valid numbers">>)

\* the request with the empty lat was refused, the points-cache holds an
\* entry, and a batch was answered with an invalid item after a valid one
C21_Witness ==
    /\ Len(log) = 1 /\ log[1].outcome = InvalidInput
    /\ DOMAIN pointsCache # {}
    /\ batch = "done"
    /\ Len(locations) = 2
    /\ outcomes[1].t = "returned"
    /\ outcomes[2] = InvalidInput

\* the three kinds of failure of a call
InvalidArgument(e) ==
    /\ e.outcome.at = "input"
    /\ e.outcome.err = Err(<<"lat and lon must be valid numbers">>, 400)
    /\ e.status = 400

UpstreamError(e) ==
    /\ e.outcome.at \in {"points", "forecast"}
    /\ e.outcome.err.status \in {404, 503}
    /\ e.outcome.err.message = <<"Request failed: ", e.outcome.err.status>>
    /\ e.status = e.outcome.err.status

ProtocolError(e) ==
    /\ e.outcome.at = "points"
    /\ e.outcome.err = Err(<<"NWS points response missing forecast URL">>, 502)
    /\ e.status = 502
    /\ e.nForecast = 0

\* C16: a call that fails fails as InvalidArgument (400), as UpstreamError
\* with the status of the provider, or as ProtocolError (502, no forecast
\* request sent), and as nothing else.
C16_ThreeErrorKinds ==
    \A i \in 1..Len(log) :
        log[i].outcome.t = "threw"
            => (InvalidArgument(log[i]) \/ UpstreamError(log[i]) \/ ProtocolError(log[i]))

Awaiting(p) == call[p].pc \in {"awaitPoints", "awaitForecast"}

\* C17: every call that waits for an upstream answer stops waiting, and
\* every batch that runs is answered.
C17_UpstreamCallsEnd ==
    /\ \A p \in Procs : Awaiting(p) ~> ~Awaiting(p)
    /\ (batch = "running") ~> (batch = "done")

----------------------------------------------------------------------------
(* Claims on the batch *)

Answered == batch = "done" /\ response.status = 200 /\ Len(locations) > 0

InFlight == {p \in RunnerProcs : call[p].pc \in {"awaitPoints", "awaitForecast", "settled"}}

\* C4: the list the batch returns is as long as its input, and position i
\* holds what the worker returned for items[i], whatever the order of arrival.
C4_ResultsInInputOrder ==
    Answered
        => /\ Len(response.results) = Len(locations)
           /\ \A i \in 1..Len(locations) :
                  /\ outcomes[i] # Pending
                  /\ response.results[i] = workerResult(locations[i], outcomes[i])

\* three different items answered, one of them failed
C4_Witness ==
    /\ Answered
    /\ locations = <<ItemB, ItemBad, ItemA>>
    /\ outcomes[1].t = "threw"
    /\ outcomes[3].t = "returned"

\* the fields of a result without and with an error
SuccessFields == {"name", "lat", "lon", "forecast"}
FailureFields == SuccessFields \cup {"error"}

\* the first of a and b that is neither null nor undefined, as a number
GivenCoord(a, b) == Number(IF IsNullish(a) THEN b ELSE a)

\* C26: every result stored by a runner has forecast null exactly when it has
\* an error field; without one the forecast is the array the call returned,
\* with one the error is the non-empty message of the error the call threw;
\* both have the name of the item, or null, and the numbers of its lat and lon.
C26_ResultShape ==
    \A i \in 1..Len(results) :
        results[i] # Hole
            => LET r == results[i]
                   loc == locations[i]
               IN  /\ DOMAIN r \in {SuccessFields, FailureFields}
                   /\ (r.forecast = Null) <=> ("error" \in DOMAIN r)
                   /\ "error" \notin DOMAIN r
                          => /\ r.forecast.t = "array"
                             /\ outcomes[i] = Returned(r.forecast)
                   /\ "error" \in DOMAIN r
                          => /\ r.error # <<>>
                             /\ outcomes[i].t = "threw"
                             /\ r.error = outcomes[i].err.message
                   /\ r.name = (IF IsNullish(loc.name) THEN Null ELSE loc.name)
                   /\ r.lat = GivenCoord(loc.lat, loc.latitude)
                   /\ r.lon = GivenCoord(loc.lon, loc.longitude)

\* an answered batch with a named item that succeeded, an unnamed item whose
\* forecast request failed and an item with a lat that is not a number
C26_Witness ==
    /\ batch = "done"
    /\ locations = <<ItemA, ItemB, ItemBad>>
    /\ outcomes[1].t = "returned"
    /\ outcomes[2].t = "threw" /\ outcomes[2].at = "forecast"
    /\ results[2].name = Null
    /\ results[3].lat = NaN
    /\ response.results = results

\* C5: a failed item gives forecast null and the error's message, an item that
\* succeeded gives its forecast and no error, and the batch is answered with
\* every item whatever failed.
C5_FailureIsolated ==
    (batch = "done" /\ Len(locations) \in 1..MaxBatch)
        => /\ response.status = 200
           /\ Len(response.results) = Len(locations)
           /\ \A i \in 1..Len(locations) :
                  LET r == response.results[i]
                  IN  /\ outcomes[i].t \in {"returned", "threw"}
                      /\ outcomes[i].t = "threw"
                             => /\ r.forecast = Null
                                /\ "error" \in DOMAIN r
                                /\ r.error = outcomes[i].err.message
                      /\ outcomes[i].t = "returned"
                             => /\ r.forecast = outcomes[i].periods
                                /\ "error" \notin DOMAIN r

\* [A, B, C] with the upstream call of B failing
C5_Witness ==
    /\ Answered
    /\ locations = <<ItemA, ItemB, ItemA>>
    /\ outcomes[1].t = "returned"
    /\ outcomes[2].t = "threw" /\ outcomes[2].at = "forecast"
    /\ outcomes[3].t = "returned"

\* C6: never more than limit getForecastForLatLon calls of a batch in flight.
C6_AtMostLimitInFlight == batch = "running" => Cardinality(InFlight) <= limit

\* limit 2, three items: two calls wait for the upstream, the third item waits
C6_Witness ==
    /\ batch = "running"
    /\ limit = 2
    /\ Len(locations) = 3
    /\ idx = 2
    /\ Cardinality({p \in RunnerProcs : call[p].pc \in {"awaitPoints", "awaitForecast"}}) = 2

\* C7: the indices are handed out one by one, 0, 1, 2, ...: none twice, none
\* skipped, and all of them once every runner has returned.
C7_EachIndexClaimedOnce ==
    /\ \A k \in 1..Len(claimed) : claimed[k] = k - 1
    /\ Answered => Len(claimed) = Len(locations)

\* two runners have shared three items
C7_Witness ==
    /\ Answered
    /\ limit = 2
    /\ Len(claimed) = 3
    /\ \A w \in DOMAIN runner : runner[w].pc = "done"

\* the first invocation, as a record like inv2
Inv1 ==
    [locations |-> locations, limit |-> limit, batch |-> batch, idx |-> idx,
     results |-> results, runner |-> runner, claimed |-> claimed, outcomes |-> outcomes,
     response |-> response, call |-> [p \in RunnerProcs |-> call[p]]]

\* the calls of invocation I that wait for an upstream answer
Waiting(I) == {p \in RunnerProcs : I.call[p].pc \in {"awaitPoints", "awaitForecast"}}

\* invocation I on its own: its indices are handed out 0, 1, 2, ... once each,
\* it has at most I.limit calls begun and not yet taken back by their runners,
\* and it answers with one result per item of its own input, in input order
OwnBatch(I) ==
    /\ \A k \in 1..Len(I.claimed) : I.claimed[k] = k - 1
    /\ I.idx >= Len(I.claimed)
    /\ Cardinality({p \in RunnerProcs : I.call[p].pc # "idle"}) <= I.limit
    /\ I.batch = "done"
           => /\ I.response.status = 200
              /\ Len(I.claimed) = Len(I.locations)
              /\ Len(I.response.results) = Len(I.locations)
              /\ \A i \in 1..Len(I.locations) :
                     LET r == I.response.results[i]
                         loc == I.locations[i]
                     IN  /\ r # Hole
                         /\ I.outcomes[i] # Pending
                         /\ r = workerResult(loc, I.outcomes[i])
                         /\ r.name = (IF IsNullish(loc.name) THEN Null ELSE loc.name)
                         /\ r.lat = GivenCoord(loc.lat, loc.latitude)

\* C27: of two batch requests that run at once, each hands out its own
\* indices once each, keeps at most its own limit of calls in flight and
\* answers with the results of its own items in its own order.
C27_InvocationsIndependent == OwnBatch(Inv1) /\ OwnBatch(inv2)

\* both run with limit 1 on different inputs: the first is at its second
\* item, the second at its first, and each has a call in flight, two together
C27_Witness ==
    /\ batch = "running" /\ inv2.batch = "running"
    /\ limit = 1 /\ inv2.limit = 1
    /\ locations # inv2.locations
    /\ idx = 2 /\ inv2.idx = 1
    /\ results[1] # Hole
    /\ Cardinality(Waiting(Inv1)) = 1
    /\ Cardinality(Waiting(inv2)) = 1

\* C8: a batch of more than MaxBatch items is answered 413 at once: no runner
\* is spawned, no call is begun, no cache is touched.
C8_OversizeRejected ==
    Len(locations) > MaxBatch
        => /\ batch = "done"
           /\ response.status = 413
           /\ runner = <<>>
           /\ claimed = <<>>
           /\ \A p \in Procs : call[p].pc = "idle"
           /\ pointsCache = EmptyMap
           /\ forecastCache = EmptyMap

\* exactly one item of the batch is one whose call may hang
OneHung == Cardinality({i \in 1..Len(locations) : locations[i] = ItemA}) = 1

OthersDone ==
    /\ Len(claimed) = Len(locations)
    /\ \A i \in 1..Len(locations) : locations[i] # ItemA => results[i] # Hole

\* C19: in a batch run with limit >= 2 in which the call of one item may
\* never be answered, every index is claimed and the result of every other
\* item is stored.
C19_PoolDegradedNotDeadlocked ==
    (batch = "running" /\ limit >= 2 /\ OneHung) ~> OthersDone

\* the call of the one item still waits, the other items have their results
\* and the other runners have returned
C19_Witness ==
    /\ batch = "running" /\ limit = 2 /\ Len(locations) = 3 /\ OneHung
    /\ OthersDone
    /\ \E w \in DOMAIN runner :
           /\ runner[w].pc = "busy" /\ MayHang(w)
           /\ call[RunnerProc(w)].pc = "awaitPoints"
           /\ \A v \in DOMAIN runner : v # w => runner[v].pc = "done"

\* the batch went through mapWithConcurrency and the handler has answered
RanAndReturned == batch = "done" /\ response.status = 200 /\ Len(locations) > 0

\* C20: mapWithConcurrency starts min(limit, items.length) runners, and when
\* the handler answers every runner has returned, the cursor is past the last
\* index, no call of a runner is in flight, and every position of the result
\* list is filled.
C20_ReturnsAfterAllRunners ==
    /\ batch = "running" => Len(runner) = Min(limit, Len(locations))
    /\ RanAndReturned =>
           /\ Len(runner) = Min(limit, Len(locations))
           /\ \A w \in DOMAIN runner : runner[w].pc = "done"
           /\ idx >= Len(locations)
           /\ \A w \in 1..BatchLimit : call[RunnerProc(w)].pc = "idle"
           /\ Len(results) = Len(locations)
           /\ \A i \in 1..Len(locations) : results[i] # Hole
           /\ response.results = results

\* three items run by two runners, answered, one forecast among the results
C20_Witness ==
    /\ RanAndReturned
    /\ limit = 2
    /\ Len(locations) = 3
    /\ Len(runner) = 2
    /\ \E i \in 1..3 : outcomes[i].t = "returned"

C8_Witness == Len(locations) = MaxBatch + 1 /\ batch = "done" /\ response.status = 413

\* nothing of a batch has run: no runner, no call, no cache entry
NothingRan ==
    /\ runner' = <<>>
    /\ claimed' = <<>>
    /\ \A p \in Procs : call'[p].pc = "idle"
    /\ pointsCache' = EmptyMap
    /\ forecastCache' = EmptyMap

\* C18: a batch request whose locations are not an array is answered with a
\* validation error (a 4xx status) before any runner is spawned or any call
\* begun.
C18_NonArrayRejected ==
    [][\A lim \in Limits :
           BatchRequest(Undefined, lim)
               => (response'.status \in 400..499 /\ NothingRan)]_vars

====
